---- MODULE Spec2Model ----
(***************************************************************************)
(* A model of the ceph POSIX adapter of XrdCeph (XrdCephPosix.cc): the     *)
(* path/parameter parser, the pool of striper sessions, the file           *)
(* descriptor table and the synchronous and asynchronous I/O entry points. *)
(* Strings are sequences of one-character strings, so that parsing and the *)
(* construction of the pool key work on the characters as the code does.   *)
(***************************************************************************)
EXTENDS Integers, Sequences, FiniteSets, TLC

\* ------------------------------------------------------------- bounds
\* opens per behaviour (g_nextCephFd stays below it)
MaxFds == 2
\* bytes handed to one write, bytes asked from one read
MaxCount == 1
\* longest file the store holds
MaxFileLen == 2
\* striper sessions created per behaviour
MaxSessions == 2
\* cluster connections established per behaviour
MaxClusters == 2
\* AioArgs objects alive at one time
MaxAio == 1
\* threads that call into the adapter
MaxThreads == 2
\* DirIterator objects alive at one time
MaxDirs == 1
\* objects a pool lists
MaxObjects == 3
\* the size of the buffer a caller hands to readdir
NameBufLen == 8
\* ticks of the wall clock
MaxClock == 1
\* longest value of an extended attribute
MaxAttrLen == 3
\* largest distance of one seek, in either direction
MaxSeek == 1
\* largest distance of a cursor from the start of the file, in either direction
MaxCursor == 2

\* ------------------------------------------------------- program constants
O_RDONLY == 0
O_WRONLY == 1
O_RDWR == 2
O_CREAT == 64
O_EXCL == 128
O_TRUNC == 512
ENOENT == 2
EIO == 5
EBADF == 9
EEXIST == 17
EINVAL == 22
ENODATA == 61
SEEK_SET == 0
SEEK_CUR == 1
SEEK_END == 2
\* a pointer that refers to nothing
NULL == 0
\* the marker of an absent environment entry (no string of characters)
None == <<"none">>
\* the answer of a store call that was not made
NotAsked == 1

\* ----------------------------------------------------------- strings
Digits == <<"0", "1", "2", "3", "4", "5", "6", "7", "8", "9">>

DigitVal(c) == (CHOOSE i \in 1..10 : Digits[i] = c) - 1

\* std::string::find(c, from): 0-based position of the first c at or after
\* from, or npos (-1)
Find(s, c, from) ==
  LET hits == {i \in (from + 1)..Len(s) : s[i] = c}
  IN IF hits = {} THEN -1 ELSE (CHOOSE i \in hits : \A j \in hits : i <= j) - 1

\* std::string::substr(pos, n) and substr(pos), 0-based
Substr(s, pos, n) == SubSeq(s, pos + 1, pos + n)

SubstrFrom(s, pos) == SubSeq(s, pos + 1, Len(s))

\* operator<< of an unsigned integer on a stringstream
RECURSIVE Dec(_)
Dec(n) == IF n < 10 THEN <<Digits[n + 1]>> ELSE Dec(n \div 10) \o <<Digits[(n % 10) + 1]>>

\* An unsigned value of the parser is held as its decimal digits without
\* leading zeros: the 64-bit values the conversions produce do not fit the
\* integers of the checker.  operator<< of such a value writes these digits.
ULLONG_MAX ==
  <<"1", "8", "4", "4", "6", "7", "4", "4", "0", "7", "3", "7", "0", "9", "5", "5",
    "1", "6", "1", "5">>

\* ULLONG_MAX + 1, from which the negation of strtoull counts down
TwoTo64 ==
  <<"1", "8", "4", "4", "6", "7", "4", "4", "0", "7", "3", "7", "0", "9", "5", "5",
    "1", "6", "1", "6">>

\* std::numeric_limits<unsigned int>::max()
UINT_MAX == <<"4", "2", "9", "4", "9", "6", "7", "2", "9", "5">>

RECURSIVE StripZeros(_)
StripZeros(d) ==
  IF Len(d) > 1 /\ d[1] = "0" THEN StripZeros(Tail(d))
  ELSE IF d = <<>> THEN <<"0">> ELSE d

\* a <= b for two values
RECURSIVE LexLE(_, _)
LexLE(a, b) ==
  IF a = <<>> THEN TRUE
  ELSE IF a[1] # b[1] THEN DigitVal(a[1]) < DigitVal(b[1])
  ELSE LexLE(Tail(a), Tail(b))

ValueLE(a, b) == Len(a) < Len(b) \/ (Len(a) = Len(b) /\ LexLE(a, b))

PadZeros(d, n) == [i \in 1..n |-> IF i <= n - Len(d) THEN "0" ELSE d[i - (n - Len(d))]]

\* a - b - borrow for digit strings of one length, a >= b
RECURSIVE Minus(_, _, _)
Minus(a, b, borrow) ==
  IF a = <<>> THEN <<>>
  ELSE LET n == Len(a)
           d == DigitVal(a[n]) - DigitVal(b[n]) - borrow
       IN Minus(SubSeq(a, 1, n - 1), SubSeq(b, 1, n - 1), IF d < 0 THEN 1 ELSE 0)
            \o <<Digits[(IF d < 0 THEN d + 10 ELSE d) + 1]>>

\* the unsigned negation of a magnitude: 2^64 - mag, and 0 for 0
Negate(mag) ==
  IF mag = <<"0">> THEN mag
  ELSE StripZeros(Minus(TwoTo64, PadZeros(mag, Len(TwoTo64)), 0))

\* the characters of isspace, of which the inputs hold the blank only
Spaces == {" "}

DigitChars == {Digits[i] : i \in 1..10}

\* the number of characters of s from position from (0-based) on that are
\* in chars
RECURSIVE Run(_, _, _)
Run(s, from, chars) ==
  IF from < Len(s) /\ s[from + 1] \in chars THEN 1 + Run(s, from + 1, chars) ELSE 0

\* strtoull(s.c_str(), &end, 10): leading white space, an optional sign and
\* a run of digits.  end is the position (0-based) where the conversion
\* stopped, the start of the string when there is no digit; erange is
\* ERANGE == errno, set when the magnitude exceeds ULLONG_MAX (the value is
\* then ULLONG_MAX); a minus sign negates the value in unsigned arithmetic
\* and is no error.  The steps of the conversion pass their results on as
\* arguments: Converted is the result for n digits from position start,
\* after sp white-space characters, mag being the magnitude of the digits.
Converted(s, sp, start, n, mag) ==
  IF n = 0 THEN [val |-> <<"0">>, end |-> 0, erange |-> FALSE]
  ELSE IF ~ValueLE(mag, ULLONG_MAX)
    THEN [val |-> ULLONG_MAX, end |-> start + n, erange |-> TRUE]
  ELSE [val |-> IF start > sp /\ s[sp + 1] = "-" THEN Negate(mag) ELSE mag,
        end |-> start + n, erange |-> FALSE]

ConvertDigits(s, sp, start, n) ==
  Converted(s, sp, start, n, StripZeros(SubSeq(s, start + 1, start + n)))

\* the digits start after the sign, when there is one
ConvertSigned(s, sp, signed) ==
  ConvertDigits(s, sp, IF signed THEN sp + 1 ELSE sp,
                Run(s, IF signed THEN sp + 1 ELSE sp, DigitChars))

ConvertAfter(s, sp) ==
  ConvertSigned(s, sp, sp < Len(s) /\ s[sp + 1] \in {"+", "-"})

strtoull(s) == ConvertAfter(s, Run(s, 0, Spaces))

\* strtoul: unsigned long has the width of unsigned long long (LP64)
strtoul(s) == strtoull(s)

\* the checks that follow a conversion res of s: the conversion stopped
\* before the end of the string (0 != *end), set ERANGE, or gave more than max
Checked(s, res, max) ==
  [threw |-> res.end # Len(s) \/ res.erange \/ ~ValueLE(res.val, max),
   val |-> res.val]

\* stoull: throws (threw) when the conversion stopped before the end of the
\* string or set ERANGE (no result exceeds ULLONG_MAX); the empty string
\* converts to 0
stoull(s) == Checked(s, strtoull(s), ULLONG_MAX)

\* stoui: throws also when the value exceeds UINT_MAX
stoui(s) == Checked(s, strtoul(s), UINT_MAX)

\* ------------------------------------------------------------ parser
admin == <<"a", "d", "m", "i", "n">>
default == <<"d", "e", "f", "a", "u", "l", "t">>
FourMB == 4194304

g_defaultParams ==
  [name |-> <<>>, pool |-> default, userId |-> admin, nbStripes |-> Dec(1),
   stripeUnit |-> Dec(FourMB), objectSize |-> Dec(FourMB)]

\* env->Get(key): the value, or None when env is NULL (env.null) or has no
\* such entry
EnvGet(env, key) == IF env.null THEN None ELSE env[key]

\* each fill function gives the value of its field and the position after it
fillCephUserId(params, env) ==
  LET atPos == Find(params, "@", 0)
  IN IF atPos # -1
       THEN [val |-> Substr(params, 0, atPos), next |-> atPos + 1]
       ELSE [val |-> IF EnvGet(env, "cephUserId") # None
                       THEN EnvGet(env, "cephUserId") ELSE g_defaultParams.userId,
             next |-> 0]

\* a pool resolution in which the environment overrides the path
fillCephPool_env_first(params, offset, env) ==
  LET comPos == Find(params, ",", offset)
  IN [val |-> IF EnvGet(env, "cephPool") # None THEN EnvGet(env, "cephPool")
              ELSE IF comPos # -1 THEN Substr(params, offset, comPos - offset)
              ELSE IF Len(params) # offset THEN SubstrFrom(params, offset)
              ELSE g_defaultParams.pool,
      next |-> IF comPos = -1 THEN Len(params) ELSE comPos + 1]

fillCephPool(params, offset, env) ==
  LET comPos == Find(params, ",", offset)
  IN IF comPos = -1
       THEN [val |-> IF Len(params) = offset
                       THEN IF EnvGet(env, "cephPool") # None
                              THEN EnvGet(env, "cephPool") ELSE g_defaultParams.pool
                       ELSE SubstrFrom(params, offset),
             next |-> Len(params)]
       ELSE [val |-> Substr(params, offset, comPos - offset), next |-> comPos + 1]

\* the stripe count and the stripe unit are filled by functions of one
\* shape, with stoui (the count) and stoull (long) as the conversion; threw
\* tells that the conversion threw
FillNumber(params, offset, env, key, dflt, long) ==
  LET comPos == Find(params, ",", offset)
      text == IF comPos # -1 THEN Substr(params, offset, comPos - offset)
              ELSE IF Len(params) # offset THEN SubstrFrom(params, offset)
              ELSE EnvGet(env, key)
      res == IF long THEN stoull(text) ELSE stoui(text)
  IN [val |-> IF text = None THEN dflt ELSE res.val,
      threw |-> text # None /\ res.threw,
      next |-> IF comPos = -1 THEN Len(params) ELSE comPos + 1]

fillCephNbStripes(params, offset, env) ==
  FillNumber(params, offset, env, "cephNbStripes", g_defaultParams.nbStripes, FALSE)

fillCephStripeUnit(params, offset, env) ==
  FillNumber(params, offset, env, "cephStripeUnit", g_defaultParams.stripeUnit, TRUE)

\* the object size is whatever follows the stripe unit, commas included
fillCephObjectSize(params, offset, env) ==
  LET text == IF Len(params) # offset THEN SubstrFrom(params, offset)
              ELSE EnvGet(env, "cephObjectSize")
  IN [val |-> IF text = None THEN g_defaultParams.objectSize ELSE stoull(text).val,
      threw |-> text # None /\ stoull(text).threw]

\* the resolved file; ok is FALSE when a number conversion throws (the
\* exception leaves the function, and the file is then never looked at)
fillCephFileParams(params, env, name) ==
  LET user == fillCephUserId(params, env)
      pool == fillCephPool(params, user.next, env)
      nbs == fillCephNbStripes(params, pool.next, env)
      su == fillCephStripeUnit(params, nbs.next, env)
      os == fillCephObjectSize(params, su.next, env)
  IN [ok |-> ~nbs.threw /\ ~su.threw /\ ~os.threw,
      file |-> [name |-> name, pool |-> pool.val, userId |-> user.val,
                nbStripes |-> nbs.val, stripeUnit |-> su.val, objectSize |-> os.val]]

\* a split of the path at its last colon
fillCephFile_last_colon(path, env) ==
  LET colons == {i \in 1..Len(path) : path[i] = ":"}
      colonPos == IF colons = {} THEN -1
                  ELSE (CHOOSE i \in colons : \A j \in colons : j <= i) - 1
  IN IF colonPos = -1
       THEN fillCephFileParams(<<>>, env, path)
       ELSE fillCephFileParams(Substr(path, 0, colonPos), env, SubstrFrom(path, colonPos + 1))

fillCephFile(path, env) ==
  LET colonPos == Find(path, ":", 0)
  IN IF colonPos = -1
       THEN fillCephFileParams(<<>>, env, path)
       ELSE fillCephFileParams(Substr(path, 0, colonPos), env, SubstrFrom(path, colonPos + 1))

getCephFile(path, env) == fillCephFile(path, env)

\* a getCephFileRef that does not start the cursor at 0
getCephFileRef_offset(f, flags, mode) ==
  [name |-> f.name, pool |-> f.pool, userId |-> f.userId, nbStripes |-> f.nbStripes,
   stripeUnit |-> f.stripeUnit, objectSize |-> f.objectSize, flags |-> flags,
   mode |-> mode, offset |-> 1]

\* getCephFileRef, given the CephFile that fillCephFile made of the path
getCephFileRef(f, flags, mode) ==
  [name |-> f.name, pool |-> f.pool, userId |-> f.userId, nbStripes |-> f.nbStripes,
   stripeUnit |-> f.stripeUnit, objectSize |-> f.objectSize, flags |-> flags,
   mode |-> mode, offset |-> 0]

\* the CephFile part of a CephFileRef
FileOf(fr) ==
  [name |-> fr.name, pool |-> fr.pool, userId |-> fr.userId, nbStripes |-> fr.nbStripes,
   stripeUnit |-> fr.stripeUnit, objectSize |-> fr.objectSize]

\* the key of the session pool, as getRadosStriper writes it into its
\* stringstream: user@pool,nbStripes,stripeUnit,objectSize
userAtPool(file) ==
  file.userId \o <<"@">> \o file.pool \o <<",">> \o file.nbStripes \o <<",">>
    \o file.stripeUnit \o <<",">> \o file.objectSize

\* -------------------------------------------------------------- inputs
NoEnv ==
  [null |-> TRUE, cephUserId |-> None, cephPool |-> None, cephNbStripes |-> None,
   cephStripeUnit |-> None, cephObjectSize |-> None]

\* an environment that names the user
UserEnv == [NoEnv EXCEPT !.null = FALSE, !.cephUserId = <<"u", "@", "v">>]

Envs == {NoEnv, UserEnv}

\* "f" and "g" in the default pool, "f" in pool p, and "f" in pool v@p as user u
Paths ==
  {<<"f">>, <<"g">>, <<"p", ":", "f">>, <<"u", "@", "v", "@", "p", ":", "f">>,
   <<"p", ",", "x", ":", "f">>}

\* the paths of the session pool specification
PoolPaths == Paths

FlagSets ==
  {O_RDONLY, O_WRONLY, O_RDWR, O_WRONLY + O_CREAT + O_EXCL, O_WRONLY + O_TRUNC}

Modes == {0}

Bytes == {1}

Buffers == UNION {[1..n -> Bytes] : n \in 1..MaxCount}

Counts == 1..MaxCount

Offsets == 0..MaxFileLen

\* descriptors a caller may pass: those issued so far and one never issued
FdInputs == 0..MaxFds

\* an environment that names every field
FullEnv ==
  [null |-> FALSE, cephUserId |-> <<"e">>, cephPool |-> <<"q">>, cephNbStripes |-> <<"5">>,
   cephStripeUnit |-> <<"6">>, cephObjectSize |-> <<"8">>]

\* an environment that names the stripe count and the stripe unit only
NumEnv == [FullEnv EXCEPT !.cephUserId = None, !.cephPool = None, !.cephObjectSize = None]

ParseEnvs == {NoEnv, UserEnv, FullEnv, NumEnv}

\* A path is written from its pieces, after the syntax
\* [user@]pool[,nbStripes[,stripeUnit[,objectSize]]]:name.  user is None or
\* the text before the @, fields holds the texts between the commas (as
\* many as the path has), colon tells whether the path has a parameter part.
PoolTexts == {<<>>, <<"p">>}

NumTexts ==
  {<<>>, <<"3">>, <<"x">>, <<"-", "3">>,
   <<"4", "2", "9", "4", "9", "6", "7", "2", "9", "6">>, TwoTo64}

\* fields the syntax has no place for
ExtraTexts == {<<"3">>}

FieldLists ==
  {<<>>} \cup {<<p>> : p \in PoolTexts}
    \cup {<<p, n>> : p \in PoolTexts, n \in NumTexts}
    \cup {<<p, n, u>> : p \in PoolTexts, n \in NumTexts, u \in NumTexts}
    \cup {<<p, n, u, o>> : p \in PoolTexts, n \in NumTexts, u \in NumTexts, o \in NumTexts}
    \cup {<<p, n, u, o, x>> : p \in PoolTexts, n \in NumTexts, u \in NumTexts,
                              o \in NumTexts, x \in ExtraTexts}

\* file names, one of them with a colon of its own
Names == {<<"f">>, <<"d", ":", "1">>}

PathPieces ==
  {in \in [user : {None, <<"u">>}, fields : FieldLists, colon : BOOLEAN, name : Names] :
     ~in.colon => in.user = None /\ in.fields = <<>> /\ Find(in.name, ":", 0) = -1}

RECURSIVE JoinComma(_)
JoinComma(fields) ==
  IF fields = <<>> THEN <<>>
  ELSE IF Len(fields) = 1 THEN fields[1]
  ELSE fields[1] \o <<",">> \o JoinComma(Tail(fields))

PathOf(in) ==
  IF in.colon
    THEN (IF in.user = None THEN <<>> ELSE in.user \o <<"@">>) \o JoinComma(in.fields)
           \o <<":">> \o in.name
    ELSE in.name

\* the paths of the plugin calls: "/", a name alone, a pool, a stripe count
\* that is no number, one above 32 bits, an object size with a minus sign,
\* and a fifth field
OssPieces ==
  {[user |-> None, fields |-> <<>>, colon |-> FALSE, name |-> n] : n \in {<<"/">>, <<"f">>}}
    \cup {[user |-> None, fields |-> fl, colon |-> TRUE, name |-> <<"f">>] :
            fl \in {<<<<"p">>>>, <<<<"p">>, <<"x">>>>, <<<<"p">>, TwoTo64>>,
                    <<<<"p">>, <<"1">>, <<"6", "5", "5", "3", "6">>,
                      <<"-", "6", "5", "5", "3", "6">>>>,
                    <<<<>>, <<"1">>, <<"3">>, <<"3">>, <<"3">>>>}}

\* ------------------------------------------------------------- state
VARIABLES
  g_radosStripers,      \* pool key -> striper object
  g_ioCtx,              \* pool key -> IoCtx object
  g_cluster,            \* NULL or the address of the Rados object
  clusters,             \* address -> the Rados object ever put there
  nextSession,          \* striper/IoCtx pairs created so far
  g_fds,                \* file descriptor -> CephFileRef
  g_filesOpenForWrite,  \* name -> occurrences in the multiset
  g_nextCephFd,         \* the next file descriptor
  store,                \* <<pool, name>> -> the striped object in the cluster
  aio,                  \* the AioArgs objects that are allocated
  now,                  \* time(NULL)
  crashed,              \* the process died on a bad pointer
  last,                 \* the last call and what it returned
  issued,               \* the descriptors successful opens have returned
  dirs,                 \* address -> the DirIterator allocated there
  threads               \* thread -> where it is in its call, and its locals

poolVars == <<g_radosStripers, g_ioCtx, g_cluster, clusters, nextSession>>
fdVars == <<g_fds, g_filesOpenForWrite, g_nextCephFd>>
aioVars == <<aio>>
vars == <<poolVars, fdVars, store, aioVars, now, crashed, last, issued, dirs, threads>>

\* ------------------------------------------------------- session pool
NoStriper == [id |-> NULL, pool |-> <<>>, cluster |-> NULL]

\* the pool as one value, for the functions that change it and return
CurPool ==
  [stripers |-> g_radosStripers, ioctx |-> g_ioCtx, cluster |-> g_cluster,
   clusters |-> clusters, nextSession |-> nextSession, crashed |-> crashed]

\* g_cluster points at a Rados object that was deleted
Dangling(ps) == ps.cluster # NULL /\ ~ps.clusters[ps.cluster].alive

\* what the cluster does to one getRadosStriper call: every step succeeds;
\* or init, conf_read_file or connect fails ("connect"); or ioctx_create,
\* striper_create or one of the three layout calls fails ("layout"), which
\* all end the same way; or a call through a deleted Rados kills the process
PoolOutcomes == {"ok", "connect", "layout", "crash"}

ConnectFailures == {"connect"}

\* g_cluster->shutdown(); delete g_cluster; g_cluster = 0
DropCluster(ps) ==
  [ps EXCEPT !.cluster = NULL,
             !.clusters[ps.cluster] =
                [@ EXCEPT !.alive = FALSE, !.deletes = @ + 1]]

\* new librados::Rados, init(userId), conf_read_file, connect
ConnectCluster(ps, file) ==
  [ps EXCEPT !.cluster = Len(ps.clusters) + 1,
             !.clusters = Append(ps.clusters,
                                 [user |-> file.userId, alive |-> TRUE, deletes |-> 0])]

\* a failed connect that leaves g_cluster pointing at the deleted Rados
FailedConnect_kept(ps, file) ==
  [ps EXCEPT !.cluster = Len(ps.clusters) + 1,
             !.clusters = Append(ps.clusters,
                                 [user |-> file.userId, alive |-> FALSE, deletes |-> 1])]

\* init, conf_read_file or connect failed: the Rados just made is deleted
\* and g_cluster is 0 again, so the pool is what it was before the call
FailedConnect(ps, file) == ps

\* a key miss that gets through the layout calls: both maps get the key
InsertSession(ps, file, key) ==
  LET obj == [id |-> ps.nextSession + 1, pool |-> file.pool, cluster |-> ps.cluster]
  IN [ps EXCEPT !.nextSession = @ + 1,
                !.ioctx = [k \in DOMAIN ps.ioctx \cup {key} |->
                             IF k = key THEN obj ELSE ps.ioctx[k]],
                !.stripers = [k \in DOMAIN ps.stripers \cup {key} |->
                                IF k = key THEN obj ELSE ps.stripers[k]]]

\* getRadosStriper, key being what the call writes into userAtPool for file:
\* [can: the outcome o is one this call can have,
\*  ps: the pool after the call, ret: the striper or NoStriper]
getRadosStriper(ps, file, key, o) ==
  IF key \in DOMAIN ps.stripers
       THEN [can |-> o = "ok", ps |-> ps, ret |-> ps.stripers[key]]
     ELSE IF ps.cluster = NULL
       THEN IF o \in ConnectFailures
              THEN [can |-> TRUE, ps |-> FailedConnect(ps, file), ret |-> NoStriper]
            ELSE IF o = "ok"
              THEN [can |-> Len(ps.clusters) < MaxClusters /\ ps.nextSession < MaxSessions,
                    ps |-> InsertSession(ConnectCluster(ps, file), file, key),
                    ret |-> InsertSession(ConnectCluster(ps, file), file, key).stripers[key]]
            ELSE [can |-> o # "crash" /\ Len(ps.clusters) < MaxClusters,
                  ps |-> DropCluster(ConnectCluster(ps, file)), ret |-> NoStriper]
     ELSE IF o = "crash"
       THEN [can |-> Dangling(ps), ps |-> [ps EXCEPT !.crashed = TRUE], ret |-> NoStriper]
     ELSE IF o = "ok"
       THEN [can |-> ps.nextSession < MaxSessions,
             ps |-> InsertSession(ps, file, key),
             ret |-> InsertSession(ps, file, key).stripers[key]]
     ELSE [can |-> o \notin ConnectFailures, ps |-> DropCluster(ps), ret |-> NoStriper]

\* the outcomes a getRadosStriper call for file can have in pool ps
OutcomesOf(ps, key) ==
  IF key \in DOMAIN ps.stripers THEN {"ok"}
  ELSE IF ps.cluster = NULL THEN PoolOutcomes \ {"crash"}
  ELSE IF Dangling(ps) THEN PoolOutcomes \ ConnectFailures
  ELSE PoolOutcomes \ (ConnectFailures \cup {"crash"})

\* getIoCtx: the IoCtx under the key of the striper just looked up
getIoCtx(ps, file, key, o) ==
  LET r == getRadosStriper(ps, file, key, o)
  IN [can |-> r.can, ps |-> r.ps,
      ret |-> IF r.ret = NoStriper THEN NoStriper ELSE r.ps.ioctx[key]]

\* ceph_posix_disconnect_all: both maps emptied, g_cluster deleted and left
\* pointing where it did
disconnect_all(ps) ==
  [ps EXCEPT !.stripers = <<>>, !.ioctx = <<>>,
             !.clusters = IF ps.cluster = NULL THEN @
                          ELSE [@ EXCEPT ![ps.cluster] =
                                  [@ EXCEPT !.alive = FALSE, !.deletes = @ + 1]]]

\* -------------------------------------------------------------- store
\* the striper's cluster is connected: its calls reach the store
Up(ps, s) == s.cluster # NULL /\ ps.clusters[s.cluster].alive

\* what the store does to one call through striper s: it performs the call,
\* or fails it, or (the cluster of s being gone) the call kills the process
StoreOutcomes == {"ok", "err", "crash"}

StoreCan(ps, s, so) ==
  CASE so = "ok" -> Up(ps, s)
    [] so = "err" -> TRUE
    [] so = "crash" -> ~Up(ps, s)

Exists(st, s, name) == <<s.pool, name>> \in DOMAIN st

Zeros(n) == [i \in 1..n |-> 0]

\* the bytes of a file after count bytes of data are written at offset off
Overwrite(old, data, off) ==
  LET len == IF Len(old) > off + Len(data) THEN Len(old) ELSE off + Len(data)
  IN [i \in 1..len |->
        IF i > off /\ i <= off + Len(data) THEN data[i - off]
        ELSE IF i <= Len(old) THEN old[i] ELSE 0]

Put(st, k, obj) == [x \in DOMAIN st \cup {k} |-> IF x = k THEN obj ELSE st[x]]

\* striper->stat
StriperStat(st, s, name, so) ==
  IF so # "ok" THEN [rc |-> -EIO, size |-> 0, mtime |-> 0]
  ELSE IF Exists(st, s, name)
    THEN [rc |-> 0, size |-> Len(st[<<s.pool, name>>].data),
          mtime |-> st[<<s.pool, name>>].mtime]
  ELSE [rc |-> -ENOENT, size |-> 0, mtime |-> 0]

\* striper->write: the whole region or an error.  An offset is held as the
\* off64_t reading of the unsigned 64-bit value (see lseek_compute_offset):
\* a negative one stands for a position of 2^63 bytes or more, where the
\* store holds and takes nothing.
StriperWrite(st, s, name, data, off, so) ==
  IF so # "ok" \/ off < 0 THEN [rc |-> -EIO, st |-> st]
  ELSE [rc |-> 0,
        st |-> Put(st, <<s.pool, name>>,
                   [data |-> Overwrite(IF Exists(st, s, name)
                                         THEN st[<<s.pool, name>>].data ELSE <<>>,
                                       data, off),
                    mtime |-> now,
                    attrs |-> IF Exists(st, s, name)
                                THEN st[<<s.pool, name>>].attrs ELSE <<>>])]

\* striper->read: the bytes from off up to count of them or the end of file
StriperRead(st, s, name, count, off, so) ==
  IF so # "ok" THEN [rc |-> -EIO, data |-> <<>>]
  ELSE IF ~Exists(st, s, name) THEN [rc |-> -ENOENT, data |-> <<>>]
  ELSE LET d == st[<<s.pool, name>>].data
           n == IF off < 0 \/ off >= Len(d) THEN 0
                ELSE IF off + count > Len(d) THEN Len(d) - off ELSE count
       IN [rc |-> n, data |-> SubSeq(d, off + 1, off + n)]

\* striper->trunc
StriperTrunc(st, s, name, size, so) ==
  IF so # "ok" THEN [rc |-> -EIO, st |-> st]
  ELSE IF ~Exists(st, s, name) THEN [rc |-> -ENOENT, st |-> st]
  ELSE LET d == st[<<s.pool, name>>].data
       IN [rc |-> 0,
           st |-> Put(st, <<s.pool, name>>,
                      [data |-> IF size <= Len(d) THEN SubSeq(d, 1, size)
                                ELSE d \o Zeros(size - Len(d)),
                       mtime |-> now, attrs |-> st[<<s.pool, name>>].attrs])]

\* striper->remove
StriperRemove(st, s, name, so) ==
  IF so # "ok" THEN [rc |-> -EIO, st |-> st]
  ELSE IF ~Exists(st, s, name) THEN [rc |-> -ENOENT, st |-> st]
  ELSE [rc |-> 0, st |-> [x \in DOMAIN st \ {<<s.pool, name>>} |-> st[x]]]

\* the extended attributes of an object are a function from names to values
\* striper->getxattr: the length of the value and the value
StriperGetXattr(st, s, name, attr, so) ==
  IF so # "ok" THEN [rc |-> -EIO, value |-> <<>>]
  ELSE IF ~Exists(st, s, name) THEN [rc |-> -ENOENT, value |-> <<>>]
  ELSE IF attr \notin DOMAIN st[<<s.pool, name>>].attrs
    THEN [rc |-> -ENODATA, value |-> <<>>]
  ELSE [rc |-> Len(st[<<s.pool, name>>].attrs[attr]),
        value |-> st[<<s.pool, name>>].attrs[attr]]

\* striper->setxattr, on an object that exists
StriperSetXattr(st, s, name, attr, value, so) ==
  IF so # "ok" THEN [rc |-> -EIO, st |-> st]
  ELSE IF ~Exists(st, s, name) THEN [rc |-> -ENOENT, st |-> st]
  ELSE [rc |-> 0,
        st |-> [st EXCEPT ![<<s.pool, name>>].attrs = Put(@, attr, value)]]

\* striper->rmxattr
StriperRmXattr(st, s, name, attr, so) ==
  IF so # "ok" THEN [rc |-> -EIO, st |-> st]
  ELSE IF ~Exists(st, s, name) THEN [rc |-> -ENOENT, st |-> st]
  ELSE IF attr \notin DOMAIN st[<<s.pool, name>>].attrs THEN [rc |-> -ENODATA, st |-> st]
  ELSE [rc |-> 0,
        st |-> [st EXCEPT ![<<s.pool, name>>].attrs =
                            [a \in DOMAIN @ \ {attr} |-> @[a]]]]

\* striper->getxattrs: the whole attribute set
StriperGetXattrs(st, s, name, so) ==
  IF so # "ok" THEN [rc |-> -EIO, attrset |-> <<>>]
  ELSE IF ~Exists(st, s, name) THEN [rc |-> -ENOENT, attrset |-> <<>>]
  ELSE [rc |-> 0, attrset |-> st[<<s.pool, name>>].attrs]

\* ceph_posix_internal_truncate
ceph_posix_internal_truncate(ps, st, file, key, size, o, so) ==
  LET g == getRadosStriper(ps, file, key, o)
      t == StriperTrunc(st, g.ret, file.name, size, so)
  IN IF g.ret = NoStriper
       THEN [can |-> g.can /\ so = "ok", rc |-> -EINVAL, ps |-> g.ps, st |-> st,
             crashed |-> g.ps.crashed]
     ELSE [can |-> g.can /\ StoreCan(g.ps, g.ret, so), rc |-> t.rc, ps |-> g.ps,
           st |-> t.st, crashed |-> so = "crash"]

\* --------------------------------------------------- descriptor table
HasBit(flags, bit) == (flags \div bit) % 2 = 1

\* flags & (O_WRONLY|O_RDWR)
ForWrite(flags) == HasBit(flags, O_WRONLY) \/ HasBit(flags, O_RDWR)

Occurrences(ofw, name) == IF name \in DOMAIN ofw THEN ofw[name] ELSE 0

\* std::multiset insert, and erase of one occurrence
MultisetInsert(ofw, name) ==
  [n \in DOMAIN ofw \cup {name} |-> IF n = name THEN Occurrences(ofw, name) + 1 ELSE ofw[n]]

MultisetEraseOne(ofw, name) ==
  [n \in {m \in DOMAIN ofw : m # name \/ ofw[m] > 1} |->
     IF n = name THEN ofw[n] - 1 ELSE ofw[n]]

\* RegisterFd with a counter that starts over when the table is empty
RegisterFd_restart(fr) ==
  LET next == IF g_fds = <<>> THEN 0 ELSE g_nextCephFd
  IN [fds |-> [d \in DOMAIN g_fds \cup {next} |-> IF d = next THEN fr ELSE g_fds[d]],
      nextFd |-> next + 1,
      ofw |-> IF ForWrite(fr.flags) THEN MultisetInsert(g_filesOpenForWrite, fr.name)
              ELSE g_filesOpenForWrite]

\* the start of ceph_posix_open: the CephFileRef goes into g_fds under the
\* next descriptor, the counter moves on, a file opened for write is noted
RegisterFd(fr) ==
  [fds |-> [d \in DOMAIN g_fds \cup {g_nextCephFd} |->
              IF d = g_nextCephFd THEN fr ELSE g_fds[d]],
   nextFd |-> g_nextCephFd + 1,
   ofw |-> IF ForWrite(fr.flags) THEN MultisetInsert(g_filesOpenForWrite, fr.name)
           ELSE g_filesOpenForWrite]

\* the O_CREAT|O_EXCL probe of ceph_posix_open: rc 0 lets the open go on
ExclProbe(ps, st, fr, key, o, so) ==
  LET g == getRadosStriper(ps, fr, key, o)
      rc == StriperStat(st, g.ret, fr.name, so).rc
  IN IF ~(HasBit(fr.flags, O_CREAT) /\ HasBit(fr.flags, O_EXCL))
       THEN [can |-> so = "ok", done |-> FALSE, rc |-> 0, ps |-> ps, crashed |-> FALSE,
             probe |-> NotAsked]
     ELSE IF g.ret = NoStriper
       THEN [can |-> g.can /\ so = "ok", done |-> TRUE, rc |-> -EINVAL, ps |-> g.ps,
             crashed |-> g.ps.crashed, probe |-> NotAsked]
     ELSE [can |-> g.can /\ StoreCan(g.ps, g.ret, so), done |-> TRUE,
           rc |-> IF rc = -ENOENT THEN 0 ELSE IF rc = 0 THEN -EEXIST ELSE rc,
           ps |-> g.ps, crashed |-> so = "crash", probe |-> rc]

\* an O_TRUNC step that fails the open for a missing file too
TruncOnOpen_strict(ps, st, fr, key, o, so) ==
  LET t == ceph_posix_internal_truncate(ps, st, fr, key, 0, o, so)
  IN IF ~HasBit(fr.flags, O_TRUNC)
       THEN [can |-> so = "ok", rc |-> 0, ps |-> ps, st |-> st, crashed |-> FALSE,
             trunc |-> NotAsked]
     ELSE [can |-> t.can, rc |-> IF t.rc < 0 THEN t.rc ELSE 0,
           ps |-> t.ps, st |-> t.st, crashed |-> t.crashed, trunc |-> t.rc]

\* the O_TRUNC step of ceph_posix_open: a missing file is no failure; trunc
\* is what ceph_posix_internal_truncate returned
TruncOnOpen(ps, st, fr, key, o, so) ==
  LET t == ceph_posix_internal_truncate(ps, st, fr, key, 0, o, so)
  IN IF ~HasBit(fr.flags, O_TRUNC)
       THEN [can |-> so = "ok", rc |-> 0, ps |-> ps, st |-> st, crashed |-> FALSE,
             trunc |-> NotAsked]
     ELSE [can |-> t.can, rc |-> IF t.rc < 0 /\ t.rc # -ENOENT THEN t.rc ELSE 0,
           ps |-> t.ps, st |-> t.st, crashed |-> t.crashed, trunc |-> t.rc]

\* ceph_posix_open once the path is parsed
ceph_posix_open(fr, key, o, so, so2) ==
  LET reg == RegisterFd(fr)
      ex == ExclProbe(CurPool, store, fr, key, o, so)
      tr == TruncOnOpen(ex.ps, store, fr, key, IF ex.done THEN "ok" ELSE o, so2)
  IN IF ex.rc # 0 \/ ex.crashed
       THEN [can |-> ex.can /\ so2 = "ok", rc |-> ex.rc, reg |-> reg, ps |-> ex.ps,
             st |-> store, crashed |-> ex.crashed, probe |-> ex.probe,
             trunc |-> NotAsked]
     ELSE IF tr.rc # 0 \/ tr.crashed
       THEN [can |-> ex.can /\ tr.can, rc |-> tr.rc, reg |-> reg, ps |-> tr.ps,
             st |-> tr.st, crashed |-> tr.crashed, probe |-> ex.probe,
             trunc |-> tr.trunc]
     ELSE [can |-> ex.can /\ tr.can /\ (ex.done \/ HasBit(fr.flags, O_TRUNC) \/ o = "ok"),
           rc |-> reg.nextFd - 1, reg |-> reg, ps |-> tr.ps, st |-> tr.st,
           crashed |-> FALSE, probe |-> ex.probe, trunc |-> tr.trunc]

\* ceph_posix_close
ceph_posix_close(fd) ==
  IF fd \in DOMAIN g_fds
    THEN [rc |-> 0,
          fds |-> [d \in DOMAIN g_fds \ {fd} |-> g_fds[d]],
          ofw |-> IF ForWrite(g_fds[fd].flags)
                    THEN MultisetEraseOne(g_filesOpenForWrite, g_fds[fd].name)
                    ELSE g_filesOpenForWrite]
    ELSE [rc |-> -EBADF, fds |-> g_fds, ofw |-> g_filesOpenForWrite]

\* ------------------------------------------------------- I/O engine
\* the access check of the read entry points, and of the write entry points
ReadRefused(fr) == ForWrite(fr.flags)

WriteRefused(fr) == ~ForWrite(fr.flags)

\* fr.offset after a cursor-based call moved n bytes
\* a cursor that stays where it is
Advance_forgotten(fr, n) == fr

Advance(fr, n) == [fr EXCEPT !.offset = @ + n]

\* ceph_posix_read (cursor TRUE) and ceph_posix_pread (cursor FALSE, at off)
SyncRead(fd, count, off, cursor, key, o, so) ==
  LET fr == g_fds[fd]
      g == getRadosStriper(CurPool, fr, key, o)
      r == StriperRead(store, g.ret, fr.name, count, IF cursor THEN fr.offset ELSE off, so)
      same == [can |-> o = "ok" /\ so = "ok", rc |-> -EBADF, data |-> <<>>,
               fds |-> g_fds, ps |-> CurPool, crashed |-> FALSE]
  IN IF fd \notin DOMAIN g_fds THEN same
     ELSE IF ReadRefused(fr) THEN same
     ELSE IF g.ret = NoStriper
       THEN [same EXCEPT !.can = g.can /\ so = "ok", !.rc = -EINVAL, !.ps = g.ps,
                         !.crashed = g.ps.crashed]
     ELSE IF so = "crash" \/ r.rc < 0
       THEN [same EXCEPT !.can = g.can /\ StoreCan(g.ps, g.ret, so), !.rc = r.rc,
                         !.ps = g.ps, !.crashed = so = "crash"]
     ELSE [same EXCEPT !.can = g.can /\ StoreCan(g.ps, g.ret, so), !.rc = r.rc,
                       !.data = r.data, !.ps = g.ps,
                       !.fds = IF cursor THEN [g_fds EXCEPT ![fd] = Advance(fr, r.rc)]
                               ELSE g_fds]

\* ceph_posix_write (cursor TRUE) and ceph_posix_pwrite (cursor FALSE, at off)
SyncWrite(fd, data, off, cursor, key, o, so) ==
  LET fr == g_fds[fd]
      g == getRadosStriper(CurPool, fr, key, o)
      at == IF cursor THEN fr.offset ELSE off
      w == StriperWrite(store, g.ret, fr.name, data, at, so)
      same == [can |-> o = "ok" /\ so = "ok", rc |-> -EBADF, st |-> store,
               fds |-> g_fds, ps |-> CurPool, crashed |-> FALSE]
  IN IF fd \notin DOMAIN g_fds THEN same
     ELSE IF WriteRefused(fr) THEN same
     ELSE IF g.ret = NoStriper
       THEN [same EXCEPT !.can = g.can /\ so = "ok", !.rc = -EINVAL, !.ps = g.ps,
                         !.crashed = g.ps.crashed]
     ELSE IF so = "crash" \/ w.rc # 0
       THEN [same EXCEPT !.can = g.can /\ StoreCan(g.ps, g.ret, so), !.rc = w.rc,
                         !.ps = g.ps, !.crashed = so = "crash"]
     ELSE [same EXCEPT !.can = g.can /\ StoreCan(g.ps, g.ret, so)
                                /\ at + Len(data) <= MaxFileLen,
                       !.rc = Len(data), !.st = w.st, !.ps = g.ps,
                       !.fds = IF cursor THEN [g_fds EXCEPT ![fd] = Advance(fr, Len(data))]
                               ELSE g_fds]

\* a seek that sets the cursor whatever whence says
lseek_compute_offset_set(fr, offset, whence) ==
  [fr |-> [fr EXCEPT !.offset = offset], rc |-> offset]

\* lseek_compute_offset.  fr.offset is an unsigned long long and the offset
\* of the call an off64_t; the assignment and the sum are taken modulo 2^64
\* and the function returns fr.offset converted to off64_t.  The model holds
\* fr.offset as that off64_t reading (the unsigned value v is v when below
\* 2^63 and v - 2^64 otherwise), in which the sum modulo 2^64 is the sum of
\* the integers as long as it stays within the 64 bits, as it does here.
lseek_compute_offset(fr, offset, whence) ==
  CASE whence = SEEK_SET -> [fr |-> [fr EXCEPT !.offset = offset], rc |-> offset]
    [] whence = SEEK_CUR ->
         [fr |-> [fr EXCEPT !.offset = @ + offset], rc |-> fr.offset + offset]
    [] OTHER -> [fr |-> fr, rc |-> -EINVAL]

\* ceph_posix_lseek and ceph_posix_lseek64 (off_t is off64_t)
ceph_posix_lseek(fd, offset, whence) ==
  IF fd \in DOMAIN g_fds
    THEN [fds |-> [g_fds EXCEPT ![fd] = lseek_compute_offset(@, offset, whence).fr],
          rc |-> lseek_compute_offset(g_fds[fd], offset, whence).rc]
    ELSE [fds |-> g_fds, rc |-> -EBADF]

\* ceph_posix_stat that does not look into g_filesOpenForWrite
OpenedForWrite_never(name) == FALSE

\* g_filesOpenForWrite.find(name) != g_filesOpenForWrite.end()
OpenedForWrite(name) == Occurrences(g_filesOpenForWrite, name) > 0

\* ceph_posix_stat once the path is parsed
ceph_posix_stat(file, key, o, so) ==
  LET g == getRadosStriper(CurPool, file, key, o)
      r == StriperStat(store, g.ret, file.name, so)
      fail == [can |-> g.can /\ so = "ok", rc |-> -EINVAL, size |-> 0, atime |-> 0,
               ps |-> g.ps, striper |-> g.ret, crashed |-> g.ps.crashed,
               storeRc |-> NotAsked]
  IN IF g.ret = NoStriper THEN fail
     ELSE IF so = "crash"
       THEN [fail EXCEPT !.can = g.can /\ StoreCan(g.ps, g.ret, so), !.rc = r.rc,
                         !.crashed = TRUE]
     ELSE IF r.rc # 0
       THEN IF r.rc = -ENOENT /\ OpenedForWrite(file.name)
              THEN [fail EXCEPT !.can = g.can /\ StoreCan(g.ps, g.ret, so), !.rc = 0,
                                !.size = 0, !.atime = now, !.storeRc = r.rc]
            ELSE [fail EXCEPT !.can = g.can /\ StoreCan(g.ps, g.ret, so), !.rc = -r.rc,
                              !.storeRc = r.rc]
     ELSE [fail EXCEPT !.can = g.can /\ StoreCan(g.ps, g.ret, so), !.rc = 0,
                       !.size = r.size, !.atime = r.mtime, !.storeRc = r.rc]

\* ---- the ends that the calls on a handle share: the handle is not in
\* ---- g_fds; getRadosStriper gave no striper; the store was asked and rc
\* ---- is returned
NotInTable(o, so) ==
  [can |-> o = "ok" /\ so = "ok", rc |-> -EBADF, ps |-> CurPool, st |-> store,
   crashed |-> FALSE, size |-> 0, atime |-> 0, data |-> <<>>, list |-> <<>>,
   storeRc |-> NotAsked]

NoSession(g, so) ==
  [NotInTable("ok", "ok") EXCEPT !.can = g.can /\ so = "ok", !.rc = -EINVAL,
                                 !.ps = g.ps, !.crashed = g.ps.crashed]

Asked(g, so, rc, storeRc) ==
  [NotInTable("ok", "ok") EXCEPT !.can = g.can /\ StoreCan(g.ps, g.ret, so), !.rc = rc,
                                 !.ps = g.ps, !.crashed = so = "crash",
                                 !.storeRc = storeRc]

\* ceph_posix_fstat
ceph_posix_fstat(fd, key, o, so) ==
  IF fd \notin DOMAIN g_fds THEN NotInTable(o, so)
  ELSE LET g == getRadosStriper(CurPool, g_fds[fd], key, o)
           r == StriperStat(store, g.ret, g_fds[fd].name, so)
       IN IF g.ret = NoStriper THEN NoSession(g, so)
          ELSE IF so = "crash" \/ r.rc # 0 THEN Asked(g, so, -r.rc, r.rc)
          ELSE [Asked(g, so, 0, r.rc) EXCEPT !.size = r.size, !.atime = r.mtime]

\* an fsync that does not look the handle up
ceph_posix_fsync_always(fd) == 0

\* ceph_posix_fsync
ceph_posix_fsync(fd) == IF fd \in DOMAIN g_fds THEN 0 ELSE -EBADF

\* ceph_posix_ftruncate
ceph_posix_ftruncate(fd, size, key, o, so) ==
  IF fd \notin DOMAIN g_fds THEN NotInTable(o, so)
  ELSE ceph_posix_internal_truncate(CurPool, store, g_fds[fd], key, size, o, so)

\* ceph_posix_truncate once the path is parsed
ceph_posix_truncate(file, key, size, o, so) ==
  ceph_posix_internal_truncate(CurPool, store, file, key, size, o, so)

\* ceph_posix_unlink once the path is parsed
ceph_posix_unlink(file, key, o, so) ==
  LET g == getRadosStriper(CurPool, file, key, o)
      r == StriperRemove(store, g.ret, file.name, so)
  IN IF g.ret = NoStriper THEN NoSession(g, so)
     ELSE [Asked(g, so, r.rc, r.rc) EXCEPT !.st = r.st]

\* ceph_posix_internal_getxattr: the first size bytes of the value
ceph_posix_internal_getxattr(file, key, attr, size, o, so) ==
  LET g == getRadosStriper(CurPool, file, key, o)
      r == StriperGetXattr(store, g.ret, file.name, attr, so)
      returned_size == IF r.rc < size THEN r.rc ELSE size
  IN IF g.ret = NoStriper THEN NoSession(g, so)
     ELSE IF so = "crash" \/ r.rc < 0 THEN Asked(g, so, r.rc, r.rc)
     ELSE [Asked(g, so, returned_size, r.rc) EXCEPT
             !.data = SubSeq(r.value, 1, returned_size)]

ceph_posix_fgetxattr(fd, attr, size, key, o, so) ==
  IF fd \notin DOMAIN g_fds THEN NotInTable(o, so)
  ELSE ceph_posix_internal_getxattr(g_fds[fd], key, attr, size, o, so)

\* ceph_posix_internal_setxattr
ceph_posix_internal_setxattr(file, key, attr, value, o, so) ==
  LET g == getRadosStriper(CurPool, file, key, o)
      r == StriperSetXattr(store, g.ret, file.name, attr, value, so)
  IN IF g.ret = NoStriper THEN NoSession(g, so)
     ELSE IF so = "crash" \/ r.rc # 0 THEN Asked(g, so, -r.rc, r.rc)
     ELSE [Asked(g, so, 0, r.rc) EXCEPT !.st = r.st]

ceph_posix_fsetxattr(fd, attr, value, key, o, so) ==
  IF fd \notin DOMAIN g_fds THEN NotInTable(o, so)
  ELSE ceph_posix_internal_setxattr(g_fds[fd], key, attr, value, o, so)

\* ceph_posix_internal_removexattr
ceph_posix_internal_removexattr(file, key, attr, o, so) ==
  LET g == getRadosStriper(CurPool, file, key, o)
      r == StriperRmXattr(store, g.ret, file.name, attr, so)
  IN IF g.ret = NoStriper THEN NoSession(g, so)
     ELSE IF so = "crash" \/ r.rc # 0 THEN Asked(g, so, -r.rc, r.rc)
     ELSE [Asked(g, so, 0, r.rc) EXCEPT !.st = r.st]

ceph_posix_fremovexattr(fd, attr, key, o, so) ==
  IF fd \notin DOMAIN g_fds THEN NotInTable(o, so)
  ELSE ceph_posix_internal_removexattr(g_fds[fd], key, attr, o, so)

\* the order in which std::map<std::string, bufferlist> is walked: by name
Alphabet == <<"a", "b", "c", "d">>

CharCode(c) == CHOOSE i \in 1..Len(Alphabet) : Alphabet[i] = c

RECURSIVE StrLess(_, _)
StrLess(a, b) ==
  IF b = <<>> THEN FALSE
  ELSE IF a = <<>> THEN TRUE
  ELSE IF a[1] = b[1] THEN StrLess(Tail(a), Tail(b))
  ELSE CharCode(a[1]) < CharCode(b[1])

RECURSIVE InOrder(_)
InOrder(names) ==
  IF names = {} THEN <<>>
  ELSE LET first == CHOOSE x \in names : \A y \in names \ {x} : StrLess(x, y)
       IN <<first>> \o InOrder(names \ {first})

\* sizeof(XrdSysXAttr::AList) and the offset of its last member, char Name[1]
AListSize == 16
NameOffset == 14

\* what the bytes of a malloc'ed item that strncpy did not write hold
\* ("lucky": what a complete, terminated name needs; "garbage": anything
\* else), and what writing past the end of the item does ("crash", or
\* nothing that is seen)
HeapOutcomes == {"lucky", "garbage", "crash"}

\* the item made for one attribute: malloc(sizeof(AList) + the length of the
\* name), Vlen, Nlen, and strncpy(newItem->Name, name, Vlen + 1), which
\* writes Vlen + 1 bytes: the characters of the name, as many as fit, and
\* NULs after them.  Name is what a reader finds there up to the first NUL;
\* overflow tells that the bytes written exceed the item.
NewItem(name, value, u) ==
  [Vlen |-> Len(value), Nlen |-> Len(name),
   Name |-> IF Len(name) < Len(value) + 1 \/ u = "lucky" THEN name
            ELSE SubSeq(name, 1, Len(value) + 1) \o <<"?">>,
   overflow |-> Len(value) + 1 > AListSize - NameOffset + Len(name)]

\* the loop over the attribute set: every item is put before the list
RECURSIVE BuildList(_, _, _, _)
BuildList(names, attrset, aPL, u) ==
  IF names = <<>> THEN aPL
  ELSE BuildList(Tail(names), attrset,
                 <<NewItem(names[1], attrset[names[1]], u)>> \o aPL, u)

MaxVlen(list) ==
  IF list = <<>> THEN 0
  ELSE CHOOSE m \in {list[i].Vlen : i \in DOMAIN list} :
         \A i \in DOMAIN list : list[i].Vlen <= m

\* ceph_posix_internal_listxattrs
ceph_posix_internal_listxattrs(file, key, getSz, o, so, u) ==
  LET g == getRadosStriper(CurPool, file, key, o)
      r == StriperGetXattrs(store, g.ret, file.name, so)
      list == BuildList(InOrder(DOMAIN r.attrset), r.attrset, <<>>, u)
      overflow == \E i \in DOMAIN list : list[i].overflow
  IN IF g.ret = NoStriper THEN [NoSession(g, so) EXCEPT !.can = @ /\ u = "lucky"]
     ELSE IF so = "crash" \/ r.rc # 0
       THEN [Asked(g, so, -r.rc, r.rc) EXCEPT !.can = @ /\ u = "lucky"]
     ELSE [Asked(g, so, IF getSz # 0 THEN 0 ELSE MaxVlen(list), r.rc) EXCEPT
             !.can = @ /\ (u = "crash" => overflow),
             !.list = list, !.crashed = u = "crash"]

ceph_posix_flistxattrs(fd, getSz, key, o, so, u) ==
  IF fd \notin DOMAIN g_fds
    THEN [NotInTable(o, so) EXCEPT !.can = @ /\ u = "lucky"]
  ELSE ceph_posix_internal_listxattrs(g_fds[fd], key, getSz, o, so, u)

\* bl.copy(0, rc, buf): the first rc bytes of the bufferlist go to the
\* caller's buffer
Copied(bl, rc) == SubSeq(bl, 1, rc)

\* ceph_aio_write (write TRUE) and ceph_aio_read (write FALSE): the access
\* check, the striper, the AioArgs and the completion made through g_cluster,
\* the submission; the AioArgs lives on whether the store took the request
\* (accepted) or not.  Beside the fields of the AioArgs the request keeps
\* what the store works with: frame is the thread in whose ceph_aio_read
\* call the receiving bufferlist bl lives (NULL once that call has
\* returned), buf the bytes of the read that the call has copied to the
\* caller's buffer
AioSubmit(fd, write, data, count, off, key, o, so, t) ==
  LET fr == g_fds[fd]
      g == getRadosStriper(CurPool, fr, key, o)
      args == [id |-> Cardinality(aio) + 1, write |-> write, accepted |-> so = "ok",
               striper |-> g.ret, name |-> fr.name, data |-> data,
               nbBytes |-> IF write THEN Len(data) ELSE count, off |-> off,
               frame |-> t, buf |-> <<>>]
      same == [can |-> o = "ok" /\ so = "ok", rc |-> -EBADF, aio |-> aio,
               ps |-> CurPool, crashed |-> FALSE]
  IN IF fd \notin DOMAIN g_fds THEN same
     ELSE IF (write /\ WriteRefused(fr)) \/ (~write /\ ReadRefused(fr)) THEN same
     ELSE IF g.ret = NoStriper
       THEN [same EXCEPT !.can = g.can /\ so = "ok", !.rc = -EINVAL, !.ps = g.ps,
                         !.crashed = g.ps.crashed]
     ELSE IF g.ps.cluster = NULL \/ so = "crash"
       THEN [same EXCEPT !.can = g.can /\ (g.ps.cluster = NULL \/ Dangling(g.ps)
                                             \/ ~Up(g.ps, g.ret)),
                         !.ps = g.ps, !.crashed = TRUE]
     ELSE [same EXCEPT !.can = g.can /\ StoreCan(g.ps, g.ret, so)
                                /\ Cardinality(aio) < MaxAio
                                /\ off + args.nbBytes <= MaxFileLen,
                       !.rc = IF so = "ok" THEN 0 ELSE -EIO,
                       !.aio = aio \cup {args}, !.ps = g.ps]

\* what the store's write of the bytes read into a bufferlist whose frame
\* is gone can do: the memory still takes them, or the process dies
DeadFrameOutcomes == {"lucky", "crash"}

\* the completion of a read hands its bytes to a bufferlist that is gone
IntoDeadFrame(a, so) ==
  /\ ~a.write /\ a.frame = NULL
  /\ StriperRead(store, a.striper, a.name, a.nbBytes, a.off, so).rc >= 0

\* a completion that hands the callback the byte count asked for, whatever
\* the store reports
ceph_aio_complete_count(a, so, u) ==
  LET w == StriperWrite(store, a.striper, a.name, a.data, a.off, so)
      r == StriperRead(store, a.striper, a.name, a.nbBytes, a.off, so)
  IN [can |-> /\ a.accepted /\ so # "crash" /\ StoreCan(CurPool, a.striper, so)
              /\ u = "crash" => IntoDeadFrame(a, so),
      storeRc |-> IF a.write THEN w.rc ELSE r.rc,
      rc |-> a.nbBytes,
      st |-> IF a.write /\ so = "ok" THEN w.st ELSE store,
      aio |-> aio \ {a},
      bl |-> IF a.write THEN <<>> ELSE r.data, buf |-> a.buf,
      crashed |-> u = "crash"]

\* ceph_aio_complete: storeRc is rados_aio_get_return_value(c), what the
\* request gave in the store: 0 for a write done, the bytes read for a
\* read, a negative code for a failure.  The callback gets the byte count
\* asked for when that value is 0 and the value itself otherwise (as a
\* size_t, which the receiver reads back as the signed code), and the
\* AioArgs is deleted.  Before that the store has put the bytes of a read
\* into the bufferlist the request was submitted with (bl); buf is what the
\* caller's buffer holds of them when the callback runs.  With the frame of
\* that bufferlist gone the outcome u may be the death of the process.
ceph_aio_complete(a, so, u) ==
  LET w == StriperWrite(store, a.striper, a.name, a.data, a.off, so)
      r == StriperRead(store, a.striper, a.name, a.nbBytes, a.off, so)
      c == IF a.write THEN w.rc ELSE r.rc
  IN [can |-> /\ a.accepted /\ so # "crash" /\ StoreCan(CurPool, a.striper, so)
              /\ u = "crash" => IntoDeadFrame(a, so),
      storeRc |-> c,
      rc |-> IF c = 0 THEN a.nbBytes ELSE c,
      st |-> IF a.write /\ so = "ok" THEN w.st ELSE store,
      aio |-> aio \ {a},
      bl |-> IF a.write THEN <<>> ELSE r.data, buf |-> a.buf,
      crashed |-> u = "crash"]

\* ---------------------------------------------------------- directories
\* the suffix of the key of the first stripe object of a file, and of the
\* second one
FirstStripe ==
  <<".", "0", "0", "0", "0", "0", "0", "0", "0", "0", "0", "0", "0", "0", "0", "0", "0">>

SecondStripe == [FirstStripe EXCEPT ![17] = "1"]

SuffixLen == Len(FirstStripe)

\* the keys a pool may list: the stripes of the files a and ab, and an
\* object x that no striper wrote
ObjectKeys ==
  {<<"a">> \o FirstStripe, <<"a">> \o SecondStripe, <<"a", "b">> \o FirstStripe,
   <<"a", "b">> \o SecondStripe, <<"x">>}

\* what objects_begin() .. objects_end() goes through: the keys in the
\* order of the cluster, no key twice
Listings ==
  {l \in UNION {[1..n -> ObjectKeys] : n \in 0..MaxObjects} :
     \A i, j \in DOMAIN l : i # j => l[i] # l[j]}

\* what reading iterator->first of the end iterator may do: the process
\* dies, the string found there is shorter than the suffix (compare
\* throws), or it is some string that the loop then leaves behind
PastEndOutcomes == {"crash", "throw", "string"}

\* the while loop of ceph_posix_readdir from position pos (1-based, Len + 1
\* is objects_end()): iterator->first is compared before the iterator is
\* checked against the end; compare(size() - 17, ...) throws out_of_range
\* for a key shorter than 17 characters, size() being unsigned
RECURSIVE ReadDirLoop(_, _, _)
ReadDirLoop(keys, pos, u) ==
  IF pos > Len(keys)
    THEN [pos |-> pos, threw |-> u = "throw", crashed |-> u = "crash", pastEnd |-> TRUE]
  ELSE IF Len(keys[pos]) < SuffixLen
    THEN [pos |-> pos, threw |-> TRUE, crashed |-> FALSE, pastEnd |-> FALSE]
  ELSE IF SubSeq(keys[pos], Len(keys[pos]) - SuffixLen + 1, Len(keys[pos])) # FirstStripe
    THEN ReadDirLoop(keys, pos + 1, u)
  ELSE [pos |-> pos, threw |-> FALSE, crashed |-> FALSE, pastEnd |-> FALSE]

\* ceph_posix_readdir(dirp, buff, blen): buff is the string the caller
\* finds in its buffer (the characters before the first NUL)
ceph_posix_readdir(d, blen, u) ==
  LET keys == dirs[d].keys
      loop == ReadDirLoop(keys, dirs[d].pos, u)
      l == Len(keys[loop.pos]) - SuffixLen
      n == IF l < blen THEN l ELSE blen
      same == [rc |-> 0, threw |-> FALSE, crashed |-> FALSE, buff |-> <<>>,
               pastEnd |-> loop.pastEnd, dirs |-> [dirs EXCEPT ![d].pos = loop.pos]]
  IN IF loop.crashed THEN [same EXCEPT !.crashed = TRUE]
     ELSE IF loop.threw THEN [same EXCEPT !.threw = TRUE]
     ELSE IF loop.pos > Len(keys) THEN same
     ELSE [same EXCEPT !.buff = Substr(keys[loop.pos], 0, n - 1),
                       !.dirs = [dirs EXCEPT ![d].pos = loop.pos + 1]]

\* ceph_posix_opendir, given the file getCephFile made of the path and the
\* objects the pool lists; ret is the address of the new DirIterator or NULL
ceph_posix_opendir(file, key, o, listing) ==
  LET g == getIoCtx(CurPool, file, key, o)
      res == Cardinality(DOMAIN dirs) + 1
      same == [can |-> TRUE, ret |-> NULL, errno |-> 0, ps |-> CurPool, dirs |-> dirs]
  IN IF file.name # <<"/">> THEN [same EXCEPT !.errno = -ENOENT]
     ELSE IF g.ret = NoStriper
       THEN [same EXCEPT !.can = g.can, !.errno = EINVAL, !.ps = g.ps]
     ELSE [same EXCEPT !.can = g.can /\ Cardinality(DOMAIN dirs) < MaxDirs,
                       !.ret = res, !.ps = g.ps,
                       !.dirs = [a \in DOMAIN dirs \cup {res} |->
                                   IF a = res THEN [keys |-> listing, pos |-> 1]
                                   ELSE dirs[a]]]

\* ceph_posix_closedir: the DirIterator is deleted
ceph_posix_closedir(d) ==
  [rc |-> 0, dirs |-> [a \in DOMAIN dirs \ {d} |-> dirs[a]]]

\* ------------------------------------------------------------- actions
Threads == 1..MaxThreads

\* a thread that has not been in a call of the adapter; a thread back from
\* a call is at "idle" too and keeps what the call returned
Idle == [pc |-> "idle", op |-> "none"]

NoFile ==
  [name |-> <<>>, pool |-> <<>>, userId |-> <<>>, nbStripes |-> <<>>,
   stripeUnit |-> <<>>, objectSize |-> <<>>]

\* the last call: what was asked (op, fd, flags, count, off, data written, file),
\* what came back (rc or a thrown exception, data read, size and atime), the
\* striper the call worked through and what the store answered it
\* a call that was given no path
NoPieces == [user |-> None, fields |-> <<>>, colon |-> FALSE, name |-> <<>>]

Ret(op, fd, rc) ==
  [op |-> op, fd |-> fd, rc |-> rc, threw |-> FALSE, flags |-> 0, count |-> 0,
   off |-> 0, whence |-> SEEK_SET, data |-> <<>>, list |-> <<>>,
   size |-> 0, atime |-> 0, file |-> NoFile, striper |-> NoStriper,
   storeRc |-> NotAsked, truncRc |-> NotAsked, caught |-> FALSE, pieces |-> NoPieces,
   outcome |-> "ok", bl |-> <<>>, frame |-> NULL]

SetPool(ps) ==
  /\ g_radosStripers' = ps.stripers
  /\ g_ioCtx' = ps.ioctx
  /\ g_cluster' = ps.cluster
  /\ clusters' = ps.clusters
  /\ nextSession' = ps.nextSession

InitGlobals ==
  /\ g_radosStripers = <<>>
  /\ g_ioCtx = <<>>
  /\ g_cluster = NULL
  /\ clusters = <<>>
  /\ nextSession = 0
  /\ g_fds = <<>>
  /\ g_filesOpenForWrite = <<>>
  /\ g_nextCephFd = 0
  /\ aio = {}
  /\ now = 1
  /\ crashed = FALSE
  /\ issued = <<>>
  /\ dirs = <<>>
  /\ threads = [t \in Threads |-> Idle]

InitProcess == InitGlobals /\ last = Ret("init", -1, 0)

Init == InitProcess /\ store = <<>>

\* the outcomes of the cluster and of the store are drawn inside each call
Open(path, env, flags, mode) ==
  /\ ~crashed
  /\ g_nextCephFd < MaxFds
  /\ \E p \in {getCephFile(path, env)} :
       IF ~p.ok
         THEN /\ last' = [Ret("open", -1, 0) EXCEPT !.threw = TRUE]
              /\ UNCHANGED <<poolVars, fdVars, store, aioVars, now, crashed, issued, dirs,
                             threads>>
         ELSE \E key \in {userAtPool(p.file)} :
              \E o \in OutcomesOf(CurPool, key), so \in StoreOutcomes,
                 so2 \in StoreOutcomes :
              \E r \in {ceph_posix_open(getCephFileRef(p.file, flags, mode), key,
                                        o, so, so2)} :
               /\ r.can
               /\ g_fds' = r.reg.fds
               /\ g_nextCephFd' = r.reg.nextFd
               /\ g_filesOpenForWrite' = r.reg.ofw
               /\ SetPool(r.ps)
               /\ store' = r.st
               /\ crashed' = (r.crashed \/ r.ps.crashed)
               /\ last' = [Ret("open", -1, r.rc) EXCEPT !.file = p.file, !.flags = flags,
                                                        !.storeRc = r.probe,
                                                        !.truncRc = r.trunc]
               /\ issued' = IF r.rc >= 0 /\ ~r.crashed THEN Append(issued, r.rc) ELSE issued
               /\ UNCHANGED <<aioVars, now, dirs, threads>>

Close(fd) ==
  /\ ~crashed
  /\ \E r \in {ceph_posix_close(fd)} :
        /\ g_fds' = r.fds
        /\ g_filesOpenForWrite' = r.ofw
        /\ last' = Ret("close", fd, r.rc)
  /\ UNCHANGED <<poolVars, g_nextCephFd, store, aioVars, now, crashed, issued, dirs, threads>>

\* the pool key of the file behind a descriptor, written out once for a call
FdKey(fd) == IF fd \in DOMAIN g_fds THEN userAtPool(g_fds[fd]) ELSE <<>>

ReadCall(op, fd, count, off, cursor) ==
  /\ ~crashed
  /\ \E key \in {FdKey(fd)} :
     \E o \in OutcomesOf(CurPool, key), so \in StoreOutcomes :
     \E r \in {SyncRead(fd, count, off, cursor, key, o, so)} :
        /\ r.can
        /\ g_fds' = r.fds
        /\ SetPool(r.ps)
        /\ crashed' = (r.crashed \/ r.ps.crashed)
        /\ last' = [Ret(op, fd, r.rc) EXCEPT !.data = r.data, !.count = count,
                                             !.off = off]
  /\ UNCHANGED <<g_filesOpenForWrite, g_nextCephFd, store, aioVars, now, issued, dirs, threads>>

Read(fd, count) == ReadCall("read", fd, count, 0, TRUE)

PRead(fd, count, off) == ReadCall("pread", fd, count, off, FALSE)

WriteCall(op, fd, data, off, cursor) ==
  /\ ~crashed
  /\ \E key \in {FdKey(fd)} :
     \E o \in OutcomesOf(CurPool, key), so \in StoreOutcomes :
     \E r \in {SyncWrite(fd, data, off, cursor, key, o, so)} :
        /\ r.can
        /\ g_fds' = r.fds
        /\ SetPool(r.ps)
        /\ store' = r.st
        /\ crashed' = (r.crashed \/ r.ps.crashed)
        /\ last' = [Ret(op, fd, r.rc) EXCEPT !.data = data, !.count = Len(data),
                                             !.off = off]
  /\ UNCHANGED <<g_filesOpenForWrite, g_nextCephFd, aioVars, now, issued, dirs, threads>>

Write(fd, data) == WriteCall("write", fd, data, 0, TRUE)

PWrite(fd, data, off) == WriteCall("pwrite", fd, data, off, FALSE)

\* ceph_posix_lseek(fd, offset, whence); cursors stay within MaxCursor of
\* the start
Seek(fd, offset, whence) ==
  /\ ~crashed
  /\ \E r \in {ceph_posix_lseek(fd, offset, whence)} :
       /\ \A d \in DOMAIN r.fds :
            r.fds[d].offset <= MaxCursor /\ -r.fds[d].offset <= MaxCursor
       /\ g_fds' = r.fds
       /\ last' = [Ret("lseek", fd, r.rc) EXCEPT !.off = offset, !.whence = whence]
  /\ UNCHANGED <<poolVars, g_filesOpenForWrite, g_nextCephFd, store, aioVars, now,
                 crashed, issued, dirs, threads>>

AioCall(op, fd, write, data, count, off) ==
  /\ ~crashed
  /\ \E key \in {FdKey(fd)} :
     \E o \in OutcomesOf(CurPool, key), so \in StoreOutcomes :
     \E r \in {AioSubmit(fd, write, data, count, off, key, o, so, NULL)} :
        /\ r.can
        /\ aio' = r.aio
        /\ SetPool(r.ps)
        /\ crashed' = (r.crashed \/ r.ps.crashed)
        /\ last' = [Ret(op, fd, r.rc) EXCEPT !.off = off]
  /\ UNCHANGED <<fdVars, store, now, issued, dirs, threads>>

AioWrite(fd, data, off) == AioCall("aio_write", fd, TRUE, data, 0, off)

AioRead(fd, count, off) == AioCall("aio_read", fd, FALSE, <<>>, count, off)

\* what the calls on a handle that go through getRadosStriper and the store
\* do to the state, r being what the call's function gave
HandleStep(r) ==
  /\ r.can
  /\ SetPool(r.ps)
  /\ store' = r.st
  /\ crashed' = (r.crashed \/ r.ps.crashed)
  /\ UNCHANGED <<fdVars, aioVars, now, issued, dirs, threads>>

FStat(fd) ==
  /\ ~crashed
  /\ \E key \in {FdKey(fd)} :
     \E o \in OutcomesOf(CurPool, key), so \in StoreOutcomes :
     \E r \in {ceph_posix_fstat(fd, key, o, so)} :
        /\ HandleStep(r)
        /\ last' = [Ret("fstat", fd, r.rc) EXCEPT !.size = r.size, !.atime = r.atime,
                                                  !.storeRc = r.storeRc]

FSync(fd) ==
  /\ ~crashed
  /\ last' = Ret("fsync", fd, ceph_posix_fsync(fd))
  /\ UNCHANGED <<poolVars, fdVars, store, aioVars, now, crashed, issued, dirs, threads>>

FTruncate(fd, size) ==
  /\ ~crashed
  /\ \E key \in {FdKey(fd)} :
     \E o \in OutcomesOf(CurPool, key), so \in StoreOutcomes :
     \E r \in {ceph_posix_ftruncate(fd, size, key, o, so)} :
        /\ HandleStep(r)
        /\ last' = [Ret("ftruncate", fd, r.rc) EXCEPT !.count = size]

FGetXattr(fd, attr, size) ==
  /\ ~crashed
  /\ \E key \in {FdKey(fd)} :
     \E o \in OutcomesOf(CurPool, key), so \in StoreOutcomes :
     \E r \in {ceph_posix_fgetxattr(fd, attr, size, key, o, so)} :
        /\ HandleStep(r)
        /\ last' = [Ret("fgetxattr", fd, r.rc) EXCEPT !.count = size, !.data = r.data,
                                                      !.storeRc = r.storeRc]

FSetXattr(fd, attr, value) ==
  /\ ~crashed
  /\ \E key \in {FdKey(fd)} :
     \E o \in OutcomesOf(CurPool, key), so \in StoreOutcomes :
     \E r \in {ceph_posix_fsetxattr(fd, attr, value, key, o, so)} :
        /\ HandleStep(r)
        /\ last' = [Ret("fsetxattr", fd, r.rc) EXCEPT !.data = value,
                                                      !.storeRc = r.storeRc]

FRemoveXattr(fd, attr) ==
  /\ ~crashed
  /\ \E key \in {FdKey(fd)} :
     \E o \in OutcomesOf(CurPool, key), so \in StoreOutcomes :
     \E r \in {ceph_posix_fremovexattr(fd, attr, key, o, so)} :
        /\ HandleStep(r)
        /\ last' = [Ret("fremovexattr", fd, r.rc) EXCEPT !.storeRc = r.storeRc]

\* getSz is the last argument of the call; the list is what *aPL points to
\* when the call is back
FListXattrs(fd, getSz) ==
  /\ ~crashed
  /\ \E key \in {FdKey(fd)} :
     \E o \in OutcomesOf(CurPool, key), so \in StoreOutcomes, u \in HeapOutcomes :
     \E r \in {ceph_posix_flistxattrs(fd, getSz, key, o, so, u)} :
        /\ HandleStep(r)
        /\ last' = [Ret("flistxattrs", fd, r.rc) EXCEPT !.flags = getSz, !.list = r.list,
                                                        !.storeRc = r.storeRc]

\* the store's thread reports a request done
AioComplete(a) ==
  /\ ~crashed
  /\ \E so \in StoreOutcomes, u \in DeadFrameOutcomes :
     \E r \in {ceph_aio_complete(a, so, u)} :
        /\ r.can
        /\ crashed' = r.crashed
        /\ IF r.crashed
             THEN /\ last' = [Ret("aio_complete", a.id, 0) EXCEPT !.count = a.nbBytes]
                  /\ UNCHANGED <<aio, store, threads>>
             ELSE /\ aio' = r.aio
                  /\ store' = r.st
                  /\ threads' = IF a.frame = NULL THEN threads
                                ELSE [threads EXCEPT ![a.frame].bl = r.bl]
                  /\ last' = [Ret("aio_callback", a.id, r.rc) EXCEPT
                                !.count = a.nbBytes, !.storeRc = r.storeRc,
                                !.bl = r.bl, !.data = r.buf, !.frame = a.frame]
  /\ UNCHANGED <<poolVars, fdVars, now, issued, dirs>>

\* ceph_aio_read of thread t up to the return of striper->aio_read: the
\* request is with the store, bl is in the frame of the call
AioReadSubmit(t, fd, count, off) ==
  /\ ~crashed
  /\ threads[t] = Idle
  /\ \E key \in {FdKey(fd)} :
     \E o \in OutcomesOf(CurPool, key), so \in StoreOutcomes :
     \E r \in {AioSubmit(fd, FALSE, <<>>, count, off, key, o, so, t)} :
        /\ r.can
        /\ aio' = r.aio
        /\ SetPool(r.ps)
        /\ crashed' = (r.crashed \/ r.ps.crashed)
        /\ threads' = [threads EXCEPT ![t] = [pc |-> "aio_read", op |-> "aio_read",
                                              fd |-> fd, rc |-> r.rc, bl |-> <<>>]]
        /\ last' = [Ret("aio_read: submit", fd, r.rc) EXCEPT !.off = off]
  /\ UNCHANGED <<fdVars, store, now, issued, dirs>>

\* the rest of ceph_aio_read: completion->release(), the return of a
\* negative rc, else bl.copy(0, rc, buf) and the return of rc; bl, which
\* holds the bytes of the read when the store has completed it already, is
\* destroyed with the frame.  data of the call record is what the caller's
\* buffer got.
AioReadReturn(t) ==
  /\ ~crashed
  /\ threads[t].pc = "aio_read"
  /\ \E got \in {IF threads[t].rc < 0 THEN <<>>
                  ELSE Copied(threads[t].bl, threads[t].rc)} :
       /\ aio' = {IF a.frame = t THEN [a EXCEPT !.frame = NULL, !.buf = got] ELSE a :
                    a \in aio}
       /\ last' = [Ret("aio_read", threads[t].fd, threads[t].rc) EXCEPT
                     !.data = got, !.bl = threads[t].bl]
  /\ threads' = [threads EXCEPT ![t] = Idle]
  /\ UNCHANGED <<poolVars, fdVars, store, now, crashed, issued, dirs>>

Stat(path, env) ==
  /\ ~crashed
  /\ \E p \in {getCephFile(path, env)} :
       IF ~p.ok
         THEN /\ last' = [Ret("stat", -1, 0) EXCEPT !.threw = TRUE]
              /\ UNCHANGED <<poolVars, crashed>>
         ELSE \E key \in {userAtPool(p.file)} :
              \E o \in OutcomesOf(CurPool, key), so \in StoreOutcomes :
              \E r \in {ceph_posix_stat(p.file, key, o, so)} :
               /\ r.can
               /\ SetPool(r.ps)
               /\ crashed' = (r.crashed \/ r.ps.crashed)
               /\ last' = [Ret("stat", -1, r.rc) EXCEPT !.size = r.size, !.atime = r.atime,
                                                        !.file = p.file,
                                                        !.striper = r.striper,
                                                        !.storeRc = r.storeRc,
                                                        !.outcome = o]
  /\ UNCHANGED <<fdVars, store, aioVars, now, issued, dirs, threads>>

\* ---- XrdCephOss: the calls of the storage plugin that take a path; in
\* ---- holds the pieces the caller wrote the path from
\* the catch block of Stat, Truncate and Unlink: the exception of the parse
\* ends in it, and -EINVAL is returned
CaughtInvalid(op, in) ==
  /\ last' = [Ret(op, -1, -EINVAL) EXCEPT !.caught = TRUE, !.pieces = in]
  /\ UNCHANGED <<poolVars, fdVars, store, aioVars, now, crashed, issued, dirs, threads>>

\* the call went through to the ceph_posix function, which returned r
OssStep(op, in, file, r) ==
  /\ HandleStep(r)
  /\ last' = [Ret(op, -1, r.rc) EXCEPT !.file = file, !.pieces = in,
                                       !.storeRc = r.storeRc]

XrdCephOss_Stat(in, env) ==
  /\ ~crashed
  /\ IF PathOf(in) = <<"/">>
       THEN /\ last' = [Ret("XrdCephOss::Stat", -1, 0) EXCEPT !.pieces = in]
            /\ UNCHANGED <<poolVars, fdVars, store, aioVars, now, crashed, issued, dirs,
                           threads>>
     ELSE \E p \in {getCephFile(PathOf(in), env)} :
       IF ~p.ok THEN CaughtInvalid("XrdCephOss::Stat", in)
       ELSE \E key \in {userAtPool(p.file)} :
            \E o \in OutcomesOf(CurPool, key), so \in StoreOutcomes :
            \E r \in {ceph_posix_stat(p.file, key, o, so)} :
              /\ r.can
              /\ SetPool(r.ps)
              /\ crashed' = (r.crashed \/ r.ps.crashed)
              /\ last' = [Ret("XrdCephOss::Stat", -1, r.rc) EXCEPT
                            !.file = p.file, !.pieces = in, !.size = r.size,
                            !.atime = r.atime, !.storeRc = r.storeRc]
              /\ UNCHANGED <<fdVars, store, aioVars, now, issued, dirs, threads>>

XrdCephOss_Truncate(in, size, env) ==
  /\ ~crashed
  /\ \E p \in {getCephFile(PathOf(in), env)} :
       IF ~p.ok THEN CaughtInvalid("XrdCephOss::Truncate", in)
       ELSE \E key \in {userAtPool(p.file)} :
            \E o \in OutcomesOf(CurPool, key), so \in StoreOutcomes :
            \E r \in {ceph_posix_truncate(p.file, key, size, o, so)} :
              /\ r.can
              /\ SetPool(r.ps)
              /\ store' = r.st
              /\ crashed' = (r.crashed \/ r.ps.crashed)
              /\ last' = [Ret("XrdCephOss::Truncate", -1, r.rc) EXCEPT
                            !.file = p.file, !.pieces = in, !.size = size]
              /\ UNCHANGED <<fdVars, aioVars, now, issued, dirs, threads>>

XrdCephOss_Unlink(in, env) ==
  /\ ~crashed
  /\ \E p \in {getCephFile(PathOf(in), env)} :
       IF ~p.ok THEN CaughtInvalid("XrdCephOss::Unlink", in)
       ELSE \E key \in {userAtPool(p.file)} :
            \E o \in OutcomesOf(CurPool, key), so \in StoreOutcomes :
            \E r \in {ceph_posix_unlink(p.file, key, o, so)} :
              OssStep("XrdCephOss::Unlink", in, p.file, r)

\* the bound on deletes of one Rados object
MaxDeletes == 2

DisconnectAll ==
  /\ ~crashed
  /\ g_cluster # NULL => clusters[g_cluster].deletes < MaxDeletes
  /\ \E ps \in {disconnect_all(CurPool)} : SetPool(ps)
  /\ last' = Ret("disconnect_all", -1, 0)
  /\ UNCHANGED <<fdVars, store, aioVars, now, crashed, issued, dirs, threads>>

\* time passes
Tick ==
  /\ ~crashed
  /\ now < 1 + MaxClock
  /\ now' = now + 1
  /\ last' = Ret("tick", -1, 0)
  /\ UNCHANGED <<poolVars, fdVars, store, aioVars, crashed, issued, dirs, threads>>

\* getCephFile(path, env), as every operation that takes a path calls it
\* first, applied to the path and the environment the caller holds; the
\* call record keeps the pieces the path was written from
GetCephFile ==
  /\ ~crashed
  /\ last.op = "caller"
  /\ \E p \in {getCephFile(PathOf(last.pieces), last.env)} :
       last' = [op |-> "getCephFile", threw |-> ~p.ok, file |-> p.file,
                path |-> PathOf(last.pieces), pieces |-> last.pieces, env |-> last.env]
  /\ UNCHANGED <<poolVars, fdVars, store, aioVars, now, crashed, issued, dirs, threads>>

\* ---- the statements of ceph_posix_open and ceph_posix_close, one thread
\* ---- at a time; no lock is taken anywhere in the file
\* another thread is inside a call
Racing(t) == \E u \in Threads \ {t} : threads[u].pc # "idle"

\* a change of a container while another thread is inside a call is a data
\* race: the change may go through, or the process may die
RaceOutcomes(t) == IF Racing(t) THEN {FALSE, TRUE} ELSE {FALSE}

\* the use of an iterator whose element another thread erased, and
\* erase(end()): the process dies, or the memory still holds what it held
StaleOutcomes == {"crash", "stale"}

\* opens that were called so far, returned or not
OpensCalled ==
  Len(issued) + Cardinality({t \in Threads : threads[t].op = "open" /\ threads[t].pc # "idle"})

\* ceph_posix_open is entered: fr = getCephFileRef(pathname, env, flags, mode, 0)
ThreadOpen(t, path, flags, mode) ==
  /\ ~crashed
  /\ threads[t].pc = "idle"
  /\ OpensCalled < MaxFds
  /\ \E p \in {getCephFile(path, NoEnv)} :
       /\ p.ok
       /\ threads' = [threads EXCEPT ![t] =
                        [pc |-> "store", op |-> "open",
                         fr |-> getCephFileRef(p.file, flags, mode)]]
  /\ UNCHANGED <<poolVars, fdVars, store, aioVars, now, crashed, last, issued, dirs>>

\* g_fds[g_nextCephFd] = fr
OpenStore(t) ==
  /\ ~crashed
  /\ threads[t].op = "open" /\ threads[t].pc = "store"
  /\ g_fds' = [d \in DOMAIN g_fds \cup {g_nextCephFd} |->
                 IF d = g_nextCephFd THEN threads[t].fr ELSE g_fds[d]]
  /\ crashed' \in RaceOutcomes(t)
  /\ threads' = [threads EXCEPT ![t].pc = "load"]
  /\ UNCHANGED <<poolVars, g_filesOpenForWrite, g_nextCephFd, store, aioVars, now, last,
                 issued, dirs>>

\* g_nextCephFd++, the read
OpenLoad(t) ==
  /\ ~crashed
  /\ threads[t].op = "open" /\ threads[t].pc = "load"
  /\ threads' = [threads EXCEPT ![t] = [pc |-> "increment", op |-> "open", fr |-> @.fr,
                                        tmp |-> g_nextCephFd]]
  /\ UNCHANGED <<poolVars, fdVars, store, aioVars, now, crashed, last, issued, dirs>>

\* g_nextCephFd++, the write
OpenIncrement(t) ==
  /\ ~crashed
  /\ threads[t].op = "open" /\ threads[t].pc = "increment"
  /\ g_nextCephFd' = threads[t].tmp + 1
  /\ threads' = [threads EXCEPT ![t] = [pc |-> "intent", op |-> "open", fr |-> @.fr]]
  /\ UNCHANGED <<poolVars, g_fds, g_filesOpenForWrite, store, aioVars, now, crashed, last,
                 issued, dirs>>

\* if (flags & (O_WRONLY|O_RDWR)) g_filesOpenForWrite.insert(fr.name); the
\* flags of the threads have neither O_CREAT|O_EXCL nor O_TRUNC, so that
\* the return is the next statement
OpenIntent(t) ==
  /\ ~crashed
  /\ threads[t].op = "open" /\ threads[t].pc = "intent"
  /\ IF ForWrite(threads[t].fr.flags)
       THEN /\ g_filesOpenForWrite' = MultisetInsert(g_filesOpenForWrite, threads[t].fr.name)
            /\ crashed' \in RaceOutcomes(t)
       ELSE UNCHANGED <<g_filesOpenForWrite, crashed>>
  /\ threads' = [threads EXCEPT ![t].pc = "return"]
  /\ UNCHANGED <<poolVars, g_fds, g_nextCephFd, store, aioVars, now, last, issued, dirs>>

\* return g_nextCephFd-1
OpenReturn(t) ==
  /\ ~crashed
  /\ threads[t].op = "open" /\ threads[t].pc = "return"
  /\ threads' = [threads EXCEPT ![t] = [pc |-> "idle", op |-> "open", fr |-> @.fr,
                                        ret |-> g_nextCephFd - 1]]
  /\ issued' = Append(issued, g_nextCephFd - 1)
  /\ UNCHANGED <<poolVars, fdVars, store, aioVars, now, crashed, last, dirs>>

\* ceph_posix_close is entered: it = g_fds.find(fd); fr is what it points at
ThreadClose(t, fd) ==
  /\ ~crashed
  /\ threads[t].pc = "idle"
  /\ threads' = [threads EXCEPT ![t] =
                   IF fd \in DOMAIN g_fds
                     THEN [pc |-> "erase_intent", op |-> "close", fd |-> fd, fr |-> g_fds[fd]]
                     ELSE [pc |-> "idle", op |-> "close", fd |-> fd, ret |-> -EBADF]]
  /\ UNCHANGED <<poolVars, fdVars, store, aioVars, now, crashed, last, issued, dirs>>

\* if (it->second.flags & (O_WRONLY|O_RDWR))
\*   g_filesOpenForWrite.erase(g_filesOpenForWrite.find(it->second.name))
CloseIntent(t, u) ==
  /\ ~crashed
  /\ threads[t].op = "close" /\ threads[t].pc = "erase_intent"
  /\ LET fd == threads[t].fd
         fr == threads[t].fr
         valid == fd \in DOMAIN g_fds
     IN IF ~valid /\ u = "crash"
          THEN crashed' = TRUE /\ UNCHANGED g_filesOpenForWrite
        ELSE IF ~ForWrite(fr.flags)
          THEN UNCHANGED <<g_filesOpenForWrite, crashed>>
        ELSE IF Occurrences(g_filesOpenForWrite, fr.name) = 0
          THEN crashed' = (u = "crash") /\ UNCHANGED g_filesOpenForWrite
        ELSE /\ g_filesOpenForWrite' = MultisetEraseOne(g_filesOpenForWrite, fr.name)
             /\ crashed' \in RaceOutcomes(t)
  /\ threads' = [threads EXCEPT ![t].pc = "erase"]
  /\ UNCHANGED <<poolVars, g_fds, g_nextCephFd, store, aioVars, now, last, issued, dirs>>

\* g_fds.erase(it); return 0
CloseErase(t, u) ==
  /\ ~crashed
  /\ threads[t].op = "close" /\ threads[t].pc = "erase"
  /\ LET fd == threads[t].fd
     IN IF fd \in DOMAIN g_fds
          THEN /\ g_fds' = [d \in DOMAIN g_fds \ {fd} |-> g_fds[d]]
               /\ crashed' \in RaceOutcomes(t)
          ELSE crashed' = (u = "crash") /\ UNCHANGED g_fds
  /\ threads' = [threads EXCEPT ![t] = [pc |-> "idle", op |-> "close", fd |-> @.fd,
                                        ret |-> 0]]
  /\ UNCHANGED <<poolVars, g_filesOpenForWrite, g_nextCephFd, store, aioVars, now, last,
                 issued, dirs>>

\* ---- the statements of getRadosStriper, one thread at a time
\* getRadosStriper is entered: it = g_radosStripers.find(userAtPool); a hit
\* returns it->second
ThreadAcquire(t, path, env) ==
  /\ ~crashed
  /\ threads[t].pc = "idle"
  /\ \E p \in {getCephFile(path, env)} :
     \E key \in {userAtPool(p.file)} :
       /\ p.ok
       /\ threads' = [threads EXCEPT ![t] =
                        IF key \in DOMAIN g_radosStripers
                          THEN [pc |-> "idle", op |-> "acquire", key |-> key,
                                ret |-> g_radosStripers[key]]
                          ELSE [pc |-> "check", op |-> "acquire", key |-> key,
                                file |-> p.file]]
  /\ UNCHANGED <<poolVars, fdVars, store, aioVars, now, crashed, last, issued, dirs>>

\* if (0 == g_cluster)
AcquireCheck(t) ==
  /\ ~crashed
  /\ threads[t].op = "acquire" /\ threads[t].pc = "check"
  /\ threads' = [threads EXCEPT ![t].pc = IF g_cluster = NULL THEN "new" ELSE "session"]
  /\ UNCHANGED <<poolVars, fdVars, store, aioVars, now, crashed, last, issued, dirs>>

\* g_cluster = new librados::Rados
AcquireNew(t) ==
  /\ ~crashed
  /\ threads[t].op = "acquire" /\ threads[t].pc = "new"
  /\ Len(clusters) < MaxClusters
  /\ SetPool(ConnectCluster(CurPool, threads[t].file))
  /\ threads' = [threads EXCEPT ![t].pc = "connect"]
  /\ UNCHANGED <<fdVars, store, aioVars, now, crashed, last, issued, dirs>>

\* g_cluster->init, conf_read_file, connect, on whatever g_cluster points
\* at by now; a failure deletes it, zeroes g_cluster and returns 0
AcquireConnect(t, o) ==
  /\ ~crashed
  /\ threads[t].op = "acquire" /\ threads[t].pc = "connect"
  /\ IF g_cluster = NULL
       THEN /\ crashed' = TRUE
            /\ UNCHANGED <<poolVars, threads>>
       ELSE IF o = "ok"
         THEN /\ threads' = [threads EXCEPT ![t].pc = "session"]
              /\ UNCHANGED <<poolVars, crashed>>
       ELSE /\ SetPool(DropCluster(CurPool))
            /\ threads' = [threads EXCEPT ![t] =
                             [pc |-> "idle", op |-> "acquire", key |-> @.key,
                              ret |-> NoStriper]]
            /\ UNCHANGED crashed
  /\ UNCHANGED <<fdVars, store, aioVars, now, last, issued, dirs>>

\* new IoCtx, ioctx_create, new RadosStriper, striper_create and the three
\* layout calls; a failure shuts the cluster down, deletes it, zeroes
\* g_cluster and returns 0
AcquireCreate(t, o) ==
  /\ ~crashed
  /\ threads[t].op = "acquire" /\ threads[t].pc = "session"
  /\ IF g_cluster = NULL
       THEN /\ crashed' = TRUE
            /\ UNCHANGED <<poolVars, threads>>
       ELSE IF o = "ok"
         THEN /\ nextSession < MaxSessions
              /\ nextSession' = nextSession + 1
              /\ threads' = [threads EXCEPT ![t] =
                               [pc |-> "insert_ioctx", op |-> "acquire", key |-> @.key,
                                obj |-> [id |-> nextSession + 1, pool |-> @.file.pool,
                                         cluster |-> g_cluster]]]
              /\ UNCHANGED <<g_radosStripers, g_ioCtx, g_cluster, clusters, crashed>>
       ELSE /\ SetPool(DropCluster(CurPool))
            /\ threads' = [threads EXCEPT ![t] =
                             [pc |-> "idle", op |-> "acquire", key |-> @.key,
                              ret |-> NoStriper]]
            /\ UNCHANGED crashed
  /\ UNCHANGED <<fdVars, store, aioVars, now, last, issued, dirs>>

\* g_ioCtx.insert(pair(userAtPool, ioctx)): a key that is there stays as it is
AcquireInsertIoCtx(t) ==
  /\ ~crashed
  /\ threads[t].op = "acquire" /\ threads[t].pc = "insert_ioctx"
  /\ g_ioCtx' = [k \in DOMAIN g_ioCtx \cup {threads[t].key} |->
                   IF k \in DOMAIN g_ioCtx THEN g_ioCtx[k] ELSE threads[t].obj]
  /\ crashed' \in RaceOutcomes(t)
  /\ threads' = [threads EXCEPT ![t].pc = "insert_striper"]
  /\ UNCHANGED <<g_radosStripers, g_cluster, clusters, nextSession, fdVars, store, aioVars,
                 now, last, issued, dirs>>

\* it = g_radosStripers.insert(pair(userAtPool, striper)).first;
\* return it->second
AcquireInsertStriper(t) ==
  /\ ~crashed
  /\ threads[t].op = "acquire" /\ threads[t].pc = "insert_striper"
  /\ g_radosStripers' = [k \in DOMAIN g_radosStripers \cup {threads[t].key} |->
                           IF k \in DOMAIN g_radosStripers THEN g_radosStripers[k]
                           ELSE threads[t].obj]
  /\ crashed' \in RaceOutcomes(t)
  /\ threads' = [threads EXCEPT ![t] =
                   [pc |-> "idle", op |-> "acquire", key |-> @.key,
                    ret |-> g_radosStripers'[@.key]]]
  /\ UNCHANGED <<g_ioCtx, g_cluster, clusters, nextSession, fdVars, store, aioVars, now,
                 last, issued, dirs>>

DirPaths == {<<"/">>, <<"f">>}

OpenDir(path, env, listing) ==
  /\ ~crashed
  /\ \E p \in {getCephFile(path, env)} :
     \E key \in {userAtPool(p.file)} :
     \E o \in OutcomesOf(CurPool, key) :
     \E r \in {ceph_posix_opendir(p.file, key, o, listing)} :
        /\ r.can
        /\ SetPool(r.ps)
        /\ dirs' = r.dirs
        /\ crashed' = r.ps.crashed
        /\ last' = [op |-> "opendir", fd |-> r.ret, rc |-> r.ret, errno |-> r.errno,
                    threw |-> FALSE, file |-> p.file]
  /\ UNCHANGED <<fdVars, store, aioVars, now, issued, threads>>

ReadDir(d, blen) ==
  /\ ~crashed
  /\ d \in DOMAIN dirs
  /\ \E u \in PastEndOutcomes :
     \E r \in {ceph_posix_readdir(d, blen, u)} :
        /\ dirs' = r.dirs
        /\ crashed' = r.crashed
        /\ last' = [op |-> "readdir", fd |-> d, rc |-> r.rc, threw |-> r.threw,
                    buff |-> r.buff, pastEnd |-> r.pastEnd]
  /\ UNCHANGED <<poolVars, fdVars, store, aioVars, now, issued, threads>>

CloseDir(d) ==
  /\ ~crashed
  /\ d \in DOMAIN dirs
  /\ \E r \in {ceph_posix_closedir(d)} :
        /\ dirs' = r.dirs
        /\ last' = [op |-> "closedir", fd |-> d, rc |-> r.rc, threw |-> FALSE]
  /\ UNCHANGED <<poolVars, fdVars, store, aioVars, now, crashed, issued, threads>>

\* the paths of the descriptor and I/O specifications: one pool key
IOPaths == {<<"f">>, <<"g">>}

\* the access modes of the I/O specification
AccessModes == {O_RDONLY, O_WRONLY, O_RDWR}

\* the cluster may hold "f" of the default pool when the process starts
InitialStores ==
  {<<>>, [k \in {<<default, <<"f">>>>} |-> [data |-> <<1>>, mtime |-> 0, attrs |-> <<>>]]}

InitFd == InitProcess /\ store \in InitialStores

\* descriptor table: open, close and stat on two names
Next ==
  \/ \E path \in IOPaths, flags \in FlagSets, mode \in Modes :
       Open(path, NoEnv, flags, mode)
  \/ \E fd \in FdInputs : Close(fd)
  \/ \E path \in IOPaths : Stat(path, NoEnv)
  \/ Tick

Spec == InitFd /\ [][Next]_vars

\* I/O engine: reads and writes on descriptors of one file
NextIO ==
  \/ \E flags \in AccessModes, mode \in Modes : Open(<<"f">>, NoEnv, flags, mode)
  \/ \E fd \in FdInputs, count \in Counts : Read(fd, count)
  \/ \E fd \in FdInputs, count \in Counts, off \in Offsets : PRead(fd, count, off)
  \/ \E fd \in FdInputs, data \in Buffers : Write(fd, data)
  \/ \E fd \in FdInputs, data \in Buffers, off \in Offsets : PWrite(fd, data, off)
  \/ \E fd \in FdInputs, data \in Buffers : AioWrite(fd, data, 0)
  \/ \E fd \in FdInputs, count \in Counts : AioRead(fd, count, 0)
  \/ \E a \in aio : AioComplete(a)

SpecIO == Init /\ [][NextIO]_vars

\* the access modes of the threads' opens and of the seek specification
ThreadModes == {O_RDONLY, O_WRONLY}

\* the offsets and the whence values of the seeks
SeekOffsets == (0 - MaxSeek)..MaxSeek

Whences == {SEEK_SET, SEEK_CUR, SEEK_END}

\* seeks among the cursor-based reads and writes of descriptors of one file
NextSeek ==
  \/ \E flags \in ThreadModes, mode \in Modes : Open(<<"f">>, NoEnv, flags, mode)
  \/ \E fd \in FdInputs, offset \in SeekOffsets, whence \in Whences :
       Seek(fd, offset, whence)
  \/ \E fd \in FdInputs, count \in Counts : Read(fd, count)
  \/ \E fd \in FdInputs, data \in Buffers : Write(fd, data)

SpecSeek == Init /\ [][NextSeek]_vars

\* the byte counts of the asynchronous specification: a read may ask for
\* more than the file holds
MaxAioCount == 2

AioCounts == 1..MaxAioCount

InitAio ==
  /\ InitProcess
  /\ store = [k \in {<<default, <<"f">>>>} |-> [data |-> <<1>>, mtime |-> 0, attrs |-> <<>>]]

\* asynchronous I/O: requests on descriptors of a file of one byte, and
\* their completions
NextAio ==
  \/ \E flags \in AccessModes, mode \in Modes : Open(<<"f">>, NoEnv, flags, mode)
  \/ \E fd \in FdInputs : Close(fd)
  \/ \E fd \in FdInputs, data \in Buffers : AioWrite(fd, data, 0)
  \/ \E fd \in FdInputs, count \in AioCounts : AioRead(fd, count, 0)
  \/ \E a \in aio : AioComplete(a)

SpecAio == InitAio /\ [][NextAio]_vars

\* asynchronous reads with the submitting call and the store's thread
\* taking their steps in either order
NextAioRead ==
  \/ Open(<<"f">>, NoEnv, O_RDONLY, 0)
  \/ \E fd \in FdInputs : Close(fd)
  \/ \E t \in Threads, fd \in FdInputs, count \in AioCounts : AioReadSubmit(t, fd, count, 0)
  \/ \E t \in Threads : AioReadReturn(t)
  \/ \E fd \in FdInputs, count \in AioCounts : AioRead(fd, count, 0)
  \/ \E a \in aio : AioComplete(a)

SpecAioRead == InitAio /\ [][NextAioRead]_vars

\* the names and the values of the extended attributes
AttrNames == {<<"a">>, <<"b", "c", "d">>}

AttrValues == {[i \in 1..n |-> 1] : n \in {1, MaxAttrLen}}

\* extended attributes of "f", which exists, through its descriptors
NextAttr ==
  \/ Open(<<"f">>, NoEnv, O_RDONLY, 0)
  \/ \E fd \in FdInputs, attr \in AttrNames, value \in AttrValues :
       FSetXattr(fd, attr, value)
  \/ \E fd \in FdInputs, attr \in AttrNames : FRemoveXattr(fd, attr)
  \/ \E fd \in FdInputs, attr \in AttrNames, size \in {1, MaxAttrLen} :
       FGetXattr(fd, attr, size)
  \/ \E fd \in FdInputs, getSz \in {0, 1} : FListXattrs(fd, getSz)

SpecAttr == InitAio /\ [][NextAttr]_vars

\* every call that takes a handle, on the handle of one open of "f" and on
\* handles that no open returned or that were closed
NextHandle ==
  \/ \E flags \in ThreadModes : g_nextCephFd = 0 /\ Open(<<"f">>, NoEnv, flags, 0)
  \/ \E fd \in FdInputs : Close(fd)
  \/ \E fd \in FdInputs : Seek(fd, 1, SEEK_SET)
  \/ \E fd \in FdInputs : Read(fd, 1)
  \/ \E fd \in FdInputs : PRead(fd, 1, 0)
  \/ \E fd \in FdInputs : Write(fd, <<1>>)
  \/ \E fd \in FdInputs : PWrite(fd, <<1>>, 0)
  \/ \E fd \in FdInputs : AioRead(fd, 1, 0)
  \/ \E fd \in FdInputs : AioWrite(fd, <<1>>, 0)
  \/ \E fd \in FdInputs : FStat(fd)
  \/ \E fd \in FdInputs : FSync(fd)
  \/ \E fd \in FdInputs : FTruncate(fd, 0)
  \/ \E fd \in FdInputs : FGetXattr(fd, <<"a">>, 1)
  \/ \E fd \in FdInputs : FSetXattr(fd, <<"a">>, <<1>>)
  \/ \E fd \in FdInputs : FRemoveXattr(fd, <<"a">>)
  \/ \E fd \in FdInputs : FListXattrs(fd, 0)

SpecHandle == Init /\ [][NextHandle]_vars

\* directory enumeration: the root of the default pool is opened, read to
\* its end and closed
NextDir ==
  \/ \E path \in DirPaths, listing \in Listings : OpenDir(path, NoEnv, listing)
  \/ \E d \in 1..MaxDirs : ReadDir(d, NameBufLen)
  \/ \E d \in 1..MaxDirs : CloseDir(d)

SpecDir == Init /\ [][NextDir]_vars

\* two threads open and close without any order between their statements;
\* a thread closes handles that an open has returned
NextThreadFd ==
  \E t \in Threads :
    \/ \E path \in IOPaths, flags \in ThreadModes, mode \in Modes :
         ThreadOpen(t, path, flags, mode)
    \/ OpenStore(t)
    \/ OpenLoad(t)
    \/ OpenIncrement(t)
    \/ OpenIntent(t)
    \/ OpenReturn(t)
    \/ \E i \in DOMAIN issued : ThreadClose(t, issued[i])
    \/ \E u \in StaleOutcomes : CloseIntent(t, u)
    \/ \E u \in StaleOutcomes : CloseErase(t, u)

SpecThreadFd == Init /\ [][NextThreadFd]_vars

\* the paths of the threads' acquisitions: two pool keys
ThreadPaths == {<<"f">>, <<"p", ":", "f">>}

\* what the cluster does to one step of a session's creation
StepOutcomes == {"ok", "fail"}

\* two threads acquire sessions without any order between their statements
NextThreadPool ==
  \E t \in Threads :
    \/ \E path \in ThreadPaths : ThreadAcquire(t, path, NoEnv)
    \/ AcquireCheck(t)
    \/ AcquireNew(t)
    \/ \E o \in StepOutcomes : AcquireConnect(t, o)
    \/ \E o \in StepOutcomes : AcquireCreate(t, o)
    \/ AcquireInsertIoCtx(t)
    \/ AcquireInsertStriper(t)

SpecThreadPool == Init /\ [][NextThreadPool]_vars

\* descriptors side by side: every call that takes a handle, on two
\* descriptors of one file
NextFrame ==
  \/ \E flags \in ThreadModes : Open(<<"f">>, NoEnv, flags, 0)
  \/ \E fd \in FdInputs : Close(fd)
  \/ \E fd \in FdInputs, whence \in {SEEK_SET, SEEK_CUR} : Seek(fd, 1, whence)
  \/ \E fd \in FdInputs : Read(fd, 1)
  \/ \E fd \in FdInputs : Write(fd, <<1>>)
  \/ \E fd \in FdInputs : PRead(fd, 1, 0)
  \/ \E fd \in FdInputs : PWrite(fd, <<1>>, 1)
  \/ \E fd \in FdInputs : FStat(fd)
  \/ \E fd \in FdInputs : FTruncate(fd, 0)

SpecFrame == Init /\ [][NextFrame]_vars

\* the name f in the default pool and in pool p
IntentPaths == {<<"f">>, <<"p", ":", "f">>}

\* write intent: opens, closes and stats of one name in two pools
NextIntent ==
  \/ \E path \in IntentPaths, flags \in ThreadModes : Open(path, NoEnv, flags, 0)
  \/ \E fd \in FdInputs : Close(fd)
  \/ \E path \in IntentPaths : Stat(path, NoEnv)

SpecIntent == Init /\ [][NextIntent]_vars

\* storage plugin: Stat, Truncate and Unlink on well-formed and malformed
\* paths
NextOss ==
  \/ \E in \in OssPieces : XrdCephOss_Stat(in, NoEnv)
  \/ \E in \in OssPieces, size \in 0..1 : XrdCephOss_Truncate(in, size, NoEnv)
  \/ \E in \in OssPieces : XrdCephOss_Unlink(in, NoEnv)

SpecOss == InitFd /\ [][NextOss]_vars

\* session pool: stat on every path under every environment, and teardown
NextPool ==
  \/ \E path \in PoolPaths, env \in Envs : Stat(path, env)
  \/ DisconnectAll

SpecPool == Init /\ [][NextPool]_vars

\* the parser specification: a caller holds a path and an environment, and
\* the path is resolved to a file
InitParse ==
  /\ InitGlobals
  /\ store = <<>>
  /\ \E in \in PathPieces, env \in ParseEnvs :
       last = [op |-> "caller", pieces |-> in, env |-> env]

NextParse == GetCephFile

SpecParse == InitParse /\ [][NextParse]_vars

\* -------------------------------------------------- block cache reads
\* the offsets, sizes, file sizes and block sizes of the reads
MaxBlockOff == 4
MaxBlockRead == 4
MaxFSize == 4
BlockSizes == 1..2

\* the division of two integers in C++, which rounds towards zero; b > 0
CDiv(a, b) == IF a >= 0 THEN a \div b ELSE -((-a) \div b)

\* the size the request is cut to when it reaches over the file size
ClampedSize(off, size, fsize) == IF off + size > fsize THEN fsize - off ELSE size

\* size of the prefetcher of block blockIdx: the last block of the file is
\* cut to the file size
PrefetchSize(blockIdx, fsize, blocksize) ==
  IF blockIdx = CDiv(fsize - 1, blocksize) THEN fsize - blockIdx * blocksize
  ELSE blocksize

\* m_blocks after block blockIdx was located: a block that is not there is
\* given a new prefetcher
LocateBlock(m_blocks, blockIdx, fsize, blocksize) ==
  IF blockIdx \in DOMAIN m_blocks THEN m_blocks
  ELSE [i \in DOMAIN m_blocks \cup {blockIdx} |->
          IF i = blockIdx
            THEN [off |-> blockIdx * blocksize,
                  size |-> PrefetchSize(blockIdx, fsize, blocksize)]
            ELSE m_blocks[i]]

\* the part of the request that is read from block blockIdx
ReadBlockSize(blockIdx, idx_first, idx_last, off0, size, blocksize) ==
  IF idx_first # idx_last
    THEN IF blockIdx = idx_first THEN (blockIdx + 1) * blocksize - off0
         ELSE IF blockIdx = idx_last THEN (off0 + size) - blockIdx * blocksize
         ELSE blocksize
    ELSE size

\* the first of the three assertions of an iteration that does not hold
FailedAssertion(off, readBlockSize, min, blocksize) ==
  IF readBlockSize = 0 THEN "readBlockSize"
  ELSE IF off < min THEN "off < min"
  ELSE IF ~(off + readBlockSize <= min + blocksize) THEN "off+readBlockSize"
  ELSE "none"

\* what Prefetch::Read may return for a request of readBlockSize bytes: all
\* of it, a positive part of it, nothing or an error
RetvalBlocks(readBlockSize) == {readBlockSize} \cup 1..(readBlockSize - 1) \cup {0, -1}

\* IOFileBlock::Read up to the loop: the block range is computed from the
\* size of the request, then the size is cut to the file size
IOFileBlock_Read ==
  /\ last.op = "caller"
  /\ \E idx_first \in {CDiv(last.off, last.blocksize)},
        idx_last \in {CDiv(last.off + last.size - 1, last.blocksize)} :
       last' = [op |-> "IOFileBlock::Read",
                pc |-> IF idx_first <= idx_last THEN "loop" ELSE "returned",
                off0 |-> last.off, off |-> last.off,
                size |-> ClampedSize(last.off, last.size, last.fsize),
                fsize |-> last.fsize, blocksize |-> last.blocksize,
                idx_first |-> idx_first, idx_last |-> idx_last,
                blockIdx |-> idx_first, bytes_read |-> 0, m_blocks |-> <<>>,
                readBlockSize |-> 0, failed |-> "none", iterations |-> 0, rc |-> 0]
  /\ UNCHANGED <<poolVars, fdVars, store, aioVars, now, crashed, issued, dirs, threads>>

\* one iteration of the loop of IOFileBlock::Read: a failed assertion ends
\* the process, a complete read of the block goes on to the next block, any
\* other result of the block is returned
ReadBlock ==
  /\ last.op = "IOFileBlock::Read"
  /\ last.pc = "loop"
  /\ \E readBlockSize \in {ReadBlockSize(last.blockIdx, last.idx_first, last.idx_last,
                                          last.off0, last.size, last.blocksize)},
        m_blocks \in {LocateBlock(last.m_blocks, last.blockIdx, last.fsize,
                                  last.blocksize)} :
     \E failed \in {FailedAssertion(last.off, readBlockSize,
                                     last.blockIdx * last.blocksize, last.blocksize)} :
       IF failed # "none"
         THEN last' = [last EXCEPT !.pc = "aborted", !.failed = failed,
                                   !.readBlockSize = readBlockSize,
                                   !.m_blocks = m_blocks,
                                   !.iterations = last.iterations + 1]
         ELSE \E retvalBlock \in RetvalBlocks(readBlockSize) :
                last' = [last EXCEPT
                  !.m_blocks = m_blocks,
                  !.readBlockSize = readBlockSize,
                  !.iterations = last.iterations + 1,
                  !.bytes_read = IF retvalBlock = readBlockSize
                                   THEN last.bytes_read + retvalBlock ELSE @,
                  !.off = IF retvalBlock = readBlockSize THEN @ + retvalBlock ELSE @,
                  !.blockIdx = IF retvalBlock = readBlockSize THEN @ + 1 ELSE @,
                  !.pc = IF retvalBlock = readBlockSize /\ last.blockIdx + 1 <= last.idx_last
                           THEN "loop" ELSE "returned",
                  !.rc = IF retvalBlock = readBlockSize THEN last.bytes_read + retvalBlock
                         ELSE IF retvalBlock > 0 THEN last.bytes_read + retvalBlock
                         ELSE retvalBlock]
  /\ UNCHANGED <<poolVars, fdVars, store, aioVars, now, crashed, issued, dirs, threads>>

\* a caller holds an offset and a size for a file of one size, cached in
\* blocks of one size
InitBlockRead ==
  /\ InitGlobals
  /\ store = <<>>
  /\ \E off \in 0..MaxBlockOff, size \in 0..MaxBlockRead, fsize \in 0..MaxFSize,
        blocksize \in BlockSizes :
       last = [op |-> "caller", off |-> off, size |-> size, fsize |-> fsize,
               blocksize |-> blocksize]

NextBlockRead == IOFileBlock_Read \/ ReadBlock

SpecBlockRead == InitBlockRead /\ [][NextBlockRead]_vars

\* ------------------------------------------------------ local file plugin
\* the hosts and paths of the URLs, and the local directories of the
\* configuration
UrlHosts == {"a", "b"}
UrlPaths == {"/x", "/y"}
LocalDirs == {"/l", "NotInside"}

\* the values of swapLocalMap that parseIntoLocalMap can leave
SwapLocalMaps == UNION {[hs -> LocalDirs] : hs \in SUBSET UrlHosts}

\* getLocalAdressMap: the entry of the server, or "NotInside"
getLocalAdressMap(swapLocalMap, servername) ==
  IF servername \notin DOMAIN swapLocalMap THEN "NotInside"
  ELSE swapLocalMap[servername]

\* what the caller of LocalPath gets when the function ends without a
\* return statement: the process dies, or it holds a string of any content
NoReturnOutcomes ==
  {[crashed |-> TRUE, str |-> ""], [crashed |-> FALSE, str |-> ""],
   [crashed |-> FALSE, str |-> "/u"]}

\* LocalPath: the local path of the URL and the new this->path, if
\* getLocalAdressMap has a local directory for the server; u is what comes of
\* the missing return
LocalPath(swapLocalMap, path, url, u) ==
  IF getLocalAdressMap(swapLocalMap, url.host) # "NotInside"
    THEN [crashed |-> FALSE, path |-> getLocalAdressMap(swapLocalMap, url.host) \o url.path,
          str |-> getLocalAdressMap(swapLocalMap, url.host) \o url.path]
    ELSE [crashed |-> u.crashed, path |-> path, str |-> u.str]

\* fstream::open with in | out | app: fails on a stream that is open and on
\* the empty name; otherwise ok tells whether the file could be opened or made
FstreamOpen(file, name, ok) ==
  IF file.is_open \/ name = "" \/ ~ok THEN [file |-> file, fail |-> TRUE]
  ELSE [file |-> [is_open |-> TRUE, name |-> name], fail |-> FALSE]

\* OpenLocalFile::Open
OpenLocalFile_Open(url) ==
  /\ ~crashed
  /\ last.op \in {"OpenLocalFile", "OpenLocalFile::Open", "OpenLocalFile::Close"}
  /\ \E u \in NoReturnOutcomes, ok \in BOOLEAN :
     \E lp \in {LocalPath(last.swapLocalMap, last.path, url, u)} :
       IF lp.crashed
         THEN /\ crashed' = TRUE
              /\ last' = [last EXCEPT !.op = "OpenLocalFile::Open", !.url = url,
                                       !.newurl = "", !.status = "none", !.handled = "none"]
         ELSE \E f \in {FstreamOpen(last.file, lp.str, ok)} :
              /\ crashed' = crashed
              /\ last' = [last EXCEPT !.op = "OpenLocalFile::Open", !.url = url,
                                       !.newurl = lp.str, !.path = lp.path,
                                       !.file = f.file,
                                       !.status = IF f.fail THEN "stError" ELSE "stOK",
                                       !.handled = IF f.fail THEN "stError" ELSE "stOK"]
  /\ UNCHANGED <<poolVars, fdVars, store, aioVars, now, issued, dirs, threads>>

\* OpenLocalFile::Close
OpenLocalFile_Close ==
  /\ ~crashed
  /\ last.op \in {"OpenLocalFile", "OpenLocalFile::Open", "OpenLocalFile::Close"}
  /\ last' = [last EXCEPT !.op = "OpenLocalFile::Close",
                           !.file = [is_open |-> FALSE, name |-> ""],
                           !.status = "stOK", !.handled = "stOK"]
  /\ UNCHANGED <<poolVars, fdVars, store, aioVars, now, crashed, issued, dirs, threads>>

\* OpenLocalFile::IsOpen
IsOpen(obj) == obj.file.is_open

\* an OpenLocalFile right after its constructor, under any configuration
InitOpenLocal ==
  /\ InitGlobals
  /\ store = <<>>
  /\ \E m \in SwapLocalMaps :
       last = [op |-> "OpenLocalFile", swapLocalMap |-> m,
               file |-> [is_open |-> FALSE, name |-> ""], path |-> "",
               url |-> [host |-> "", path |-> ""], newurl |-> "",
               status |-> "none", handled |-> "none"]

NextOpenLocal ==
  \/ \E host \in UrlHosts, path \in UrlPaths : OpenLocalFile_Open([host |-> host, path |-> path])
  \/ OpenLocalFile_Close

SpecOpenLocal == InitOpenLocal /\ [][NextOpenLocal]_vars

\* ------------------------------------------------ descriptor table claims
\* the handles that successful opens returned
Issued == {issued[i] : i \in DOMAIN issued}

\* the descriptors a caller holds: returned by an open and not closed since
Live == Issued \cap DOMAIN g_fds

\* the live descriptors of a name that were opened in a write mode
LiveWriters(name) == {fd \in Live : g_fds[fd].name = name /\ ForWrite(g_fds[fd].flags)}

\* C1: an open with O_EXCL|O_CREAT of a name the store holds reports EEXIST
\* and leaves g_fds and g_filesOpenForWrite as they were before the call; of a
\* name the store reports absent, the same open returns a handle of the table
C1_ExclusiveCreate ==
  [][(last'.op = "open" /\ HasBit(last'.flags, O_EXCL) /\ HasBit(last'.flags, O_CREAT)) =>
       /\ last'.storeRc = 0 =>
             /\ last'.rc = -EEXIST
             /\ g_fds' = g_fds
             /\ g_filesOpenForWrite' = g_filesOpenForWrite
       /\ last'.storeRc = -ENOENT => last'.rc >= 0 /\ last'.rc \in DOMAIN g_fds']_vars

\* C5: close of a handle no open returned, or of one closed already, reports
\* EBADF and changes nothing; close of a live handle removes that entry and no
\* other, and one occurrence of its name from g_filesOpenForWrite when the
\* handle was opened in a write mode
C5_Close ==
  [][last'.op = "close" =>
       IF last'.fd \in Live
         THEN /\ last'.rc = 0
              /\ DOMAIN g_fds' = DOMAIN g_fds \ {last'.fd}
              /\ \A d \in DOMAIN g_fds' : g_fds'[d] = g_fds[d]
              /\ \A n \in IOPaths :
                    Occurrences(g_filesOpenForWrite', n) =
                      Occurrences(g_filesOpenForWrite, n) -
                        (IF n = g_fds[last'.fd].name /\ ForWrite(g_fds[last'.fd].flags)
                           THEN 1 ELSE 0)
         ELSE /\ last'.rc = -EBADF
              /\ UNCHANGED fdVars]_vars

\* C6: every name occurs in g_filesOpenForWrite at most as often as there are
\* live descriptors of it opened in a write mode, so a name whose write-mode
\* descriptors are all closed does not occur
C6_WriteIntentBalanced ==
  \A n \in IOPaths : Occurrences(g_filesOpenForWrite, n) <= Cardinality(LiveWriters(n))

\* C7: the handles that successful opens return are strictly increasing in
\* the order of the opens, so no value is returned twice, closes in between
\* or not
C7_HandlesIncrease ==
  \A i, j \in DOMAIN issued : i < j => issued[i] < issued[j]

\* two opens succeeded and the first handle is closed
C7_Witness ==
  /\ Len(issued) = 2
  /\ issued[1] \notin DOMAIN g_fds
  /\ issued[2] \in DOMAIN g_fds

\* C10: a stat of a name the store reports not found, while a live descriptor
\* opened for writing carries that name, returns 0 with size 0 and the
\* current time
C10_StatOfFileBeingWritten ==
  [][(/\ last'.op = "stat"
      /\ last'.storeRc = -ENOENT
      /\ LiveWriters(last'.file.name) # {}) =>
       /\ last'.rc = 0
       /\ last'.size = 0
       /\ last'.atime = now']_vars

\* such a stat returned, at a time after the start
C10_Witness ==
  /\ last.op = "stat"
  /\ last.storeRc = -ENOENT
  /\ LiveWriters(last.file.name) # {}
  /\ last.rc = 0
  /\ last.atime = 2

\* the live descriptors of a file (a name in a pool) that were opened in a
\* write mode
LiveWritersOf(file) == {fd \in LiveWriters(file.name) : g_fds[fd].pool = file.pool}

\* C37: a stat of a name the store reports not found returns 0 with size 0
\* exactly when a live descriptor opened for writing is open on that name
\* in that pool
C37_PhantomOnlyWhileWritten ==
  [][(last'.op = "stat" /\ last'.storeRc = -ENOENT) =>
       ((last'.rc = 0 /\ last'.size = 0) <=> LiveWritersOf(last'.file) # {})]_vars

\* the same with the name alone, whatever the pool
C37_ByName ==
  [][(last'.op = "stat" /\ last'.storeRc = -ENOENT) =>
       ((last'.rc = 0 /\ last'.size = 0) <=> LiveWriters(last'.file.name) # {})]_vars

\* the bytes the store holds for file
Stored(st, file) ==
  IF <<file.pool, file.name>> \in DOMAIN st THEN st[<<file.pool, file.name>>].data
  ELSE <<>>

\* C25: an open with O_TRUNC whose truncation succeeds returns a handle and
\* leaves the file empty; one whose truncation finds no file returns a
\* handle too; any other failure of the truncation is what the open returns
C25_TruncateOnOpen ==
  [][(last'.op = "open" /\ HasBit(last'.flags, O_TRUNC) /\ ~crashed') =>
       /\ last'.truncRc = 0 =>
             /\ last'.rc >= 0 /\ last'.rc \in DOMAIN g_fds'
             /\ <<last'.file.pool, last'.file.name>> \in DOMAIN store'
             /\ Stored(store', last'.file) = <<>>
       /\ last'.truncRc = -ENOENT =>
             /\ last'.rc >= 0 /\ last'.rc \in DOMAIN g_fds'
             /\ store' = store
       /\ (last'.truncRc # NotAsked /\ last'.truncRc < 0 /\ last'.truncRc # -ENOENT) =>
             last'.rc = last'.truncRc /\ store' = store]_vars

\* a second open, with O_TRUNC, truncated the file the store holds
C25_Witness ==
  /\ last.op = "open"
  /\ HasBit(last.flags, O_TRUNC)
  /\ last.truncRc = 0
  /\ last.rc = 1
  /\ Stored(store, last.file) = <<>>
  /\ <<last.file.pool, last.file.name>> \in DOMAIN store

\* C11: a failure code the store reports to stat comes back from
\* ceph_posix_stat as that same negative value (the stat of a file being
\* written, which C10 makes a success, apart); no failing call returns zero
\* or a positive value
C11_ErrorsVerbatim ==
  [][(/\ last'.op = "stat"
      /\ last'.storeRc < 0
      /\ ~(last'.storeRc = -ENOENT /\ OpenedForWrite(last'.file.name))) =>
       last'.rc = last'.storeRc]_vars

\* the calls that take a handle, by the name the call record gives them
HandleOps ==
  {"lseek", "read", "write", "pread", "pwrite", "aio_read", "aio_write", "fstat",
   "fsync", "ftruncate", "fgetxattr", "fsetxattr", "fremovexattr", "flistxattrs",
   "close"}

\* C24: a call that takes a handle, made with a handle that is not in g_fds,
\* returns -EBADF, asks the store nothing, and leaves the session pool, the
\* descriptor table, the write-intent set, the store and the pending
\* requests as they were
C24_BadDescriptor ==
  [][(last'.op \in HandleOps /\ last'.fd \notin DOMAIN g_fds) =>
       /\ last'.rc = -EBADF
       /\ last'.storeRc = NotAsked
       /\ UNCHANGED <<poolVars, fdVars, store, aioVars, crashed, issued>>]_vars

\* an fstat on a closed handle, while the pool holds a session, was refused
C24_Witness ==
  /\ last.op = "fstat"
  /\ last.fd \in Issued \ DOMAIN g_fds
  /\ last.rc = -EBADF
  /\ DOMAIN g_radosStripers # {}

\* C32: an open that returns a failure code, or whose parse throws, leaves
\* g_fds, g_filesOpenForWrite and g_nextCephFd as they were before the call
C32_FailedOpen ==
  [][(last'.op = "open" /\ (last'.rc < 0 \/ last'.threw) /\ ~crashed') =>
       UNCHANGED fdVars]_vars

\* ------------------------------------------------------ I/O engine claims
\* the bytes of "f" in the default pool, "f" absent included
Content(st) == IF <<default, <<"f">>>> \in DOMAIN st THEN st[<<default, <<"f">>>>].data ELSE <<>>

\* the bytes of d from offset off, n of them at most
Segment(d, off, n) == SubSeq(d, off + 1, IF off + n > Len(d) THEN Len(d) ELSE off + n)

\* C2: read and pread on a handle opened write-only report EBADF, write and
\* pwrite on a handle opened read-only report EBADF, and a handle opened
\* read-write is refused by neither
C2_AccessModes ==
  [][last'.fd \in DOMAIN g_fds =>
       LET flags == g_fds[last'.fd].flags
       IN /\ last'.op \in {"read", "pread"} =>
               /\ flags = O_WRONLY => last'.rc = -EBADF
               /\ flags = O_RDWR => last'.rc # -EBADF
          /\ last'.op \in {"write", "pwrite"} =>
               /\ flags = O_RDONLY => last'.rc = -EBADF
               /\ flags = O_RDWR => last'.rc # -EBADF]_vars

\* C3: on one descriptor, a write of N bytes at cursor 0 and then a read of N
\* bytes gives the bytes written and leaves the cursor at 2N
C3_WriteThenRead ==
  [][(/\ last.op = "write"
      /\ last.rc = last.count
      /\ last.fd \in DOMAIN g_fds
      /\ g_fds[last.fd].offset = last.count
      /\ last'.op = "read"
      /\ last'.fd = last.fd
      /\ last'.count = last.count) =>
       /\ last'.rc = last.count
       /\ last'.data = last.data
       /\ g_fds'[last.fd].offset = 2 * last.count]_vars

\* C4: a read or a write that succeeds moves the cursor of its descriptor on
\* by the bytes transferred, one that fails leaves it, and pread, pwrite,
\* aio_read and aio_write leave it and work at the offset they were given
C4_Cursor ==
  [][/\ \A fd \in DOMAIN g_fds \cap DOMAIN g_fds' :
          g_fds'[fd].offset =
            g_fds[fd].offset +
              (IF last'.op \in {"read", "write"} /\ last'.fd = fd /\ last'.rc > 0
                 THEN last'.rc ELSE 0)
     /\ (last'.op = "pread" /\ last'.rc >= 0) =>
          last'.data = Segment(Content(store), last'.off, last'.count)
     /\ (last'.op = "pwrite" /\ last'.rc > 0) =>
          Segment(Content(store'), last'.off, last'.count) = last'.data
     /\ last'.op \in {"aio_read", "aio_write"} =>
          \A a \in aio' \ aio : a.off = last'.off]_vars

\* a read moved a cursor that was not at the start
C4_Witness ==
  /\ last.op = "read"
  /\ last.rc = 1
  /\ last.fd \in DOMAIN g_fds
  /\ g_fds[last.fd].offset = 2

\* C22: a seek on a known handle sets the cursor to the offset (SEEK_SET) or
\* moves it by the offset (SEEK_CUR) and returns the new cursor; with any
\* other whence it returns -EINVAL and leaves the cursor; the table keeps its
\* handles and no other handle's entry changes
C22_Seek ==
  [][(last'.op = "lseek" /\ last'.fd \in DOMAIN g_fds) =>
       /\ DOMAIN g_fds' = DOMAIN g_fds
       /\ \A d \in DOMAIN g_fds \ {last'.fd} : g_fds'[d] = g_fds[d]
       /\ \E old \in {g_fds[last'.fd]}, new \in {g_fds'[last'.fd]} :
            /\ [new EXCEPT !.offset = 0] = [old EXCEPT !.offset = 0]
            /\ CASE last'.whence = SEEK_SET ->
                      new.offset = last'.off /\ last'.rc = new.offset
                 [] last'.whence = SEEK_CUR ->
                      new.offset = old.offset + last'.off /\ last'.rc = new.offset
                 [] OTHER -> new.offset = old.offset /\ last'.rc = -EINVAL]_vars

\* a relative seek moved a cursor that was not at the start
C22_Witness ==
  /\ last.op = "lseek"
  /\ last.whence = SEEK_CUR
  /\ last.off = 1
  /\ last.rc = 2
  /\ last.fd \in DOMAIN g_fds
  /\ g_fds[last.fd].offset = 2

\* C38: a call on a handle leaves every other entry of g_fds as it is and
\* changes nothing but the cursor of its own; an open leaves every entry
\* that is there as it is, and the entry it makes has the cursor 0
C38_OtherDescriptors ==
  [][/\ \A d \in DOMAIN g_fds \ {last'.fd} : d \in DOMAIN g_fds' /\ g_fds'[d] = g_fds[d]
     /\ \A d \in DOMAIN g_fds \cap DOMAIN g_fds' :
          [g_fds'[d] EXCEPT !.offset = 0] = [g_fds[d] EXCEPT !.offset = 0]
     /\ \A d \in DOMAIN g_fds' \ DOMAIN g_fds :
          last'.op = "open" /\ g_fds'[d].offset = 0]_vars

\* a second descriptor of f was opened while the cursor of the first one
\* was not at the start
C38_Witness ==
  /\ last.op = "open" /\ last.rc = 1
  /\ DOMAIN g_fds = {0, 1}
  /\ g_fds[0].name = g_fds[1].name
  /\ g_fds[0].offset = 2
  /\ g_fds[1].offset = 0

\* C23: the cursor of every live descriptor is not negative, and a seek
\* that succeeds (a known handle, SEEK_SET or SEEK_CUR) returns no negative
\* value
C23_CursorNotNegative ==
  /\ \A fd \in Live : g_fds[fd].offset >= 0
  /\ (last.op = "lseek" /\ last.fd \in DOMAIN g_fds
        /\ last.whence \in {SEEK_SET, SEEK_CUR}) => last.rc >= 0

\* the attributes the store holds for the file of handle fd
AttrsOf(fd) == store[<<g_fds[fd].pool, g_fds[fd].name>>].attrs

\* C26: a listing that the store answered returns, in size-only mode (getSz
\* set), the length of the longest value and no names, and in full mode one
\* item for every attribute of the file, with the whole name and the length
\* of the value
C26_ListAttr ==
  (last.op = "flistxattrs" /\ last.storeRc = 0 /\ ~crashed) =>
    IF last.flags # 0
      THEN /\ last.list = <<>>
           /\ \A a \in DOMAIN AttrsOf(last.fd) : Len(AttrsOf(last.fd)[a]) <= last.rc
           /\ DOMAIN AttrsOf(last.fd) # {} =>
                 \E a \in DOMAIN AttrsOf(last.fd) : Len(AttrsOf(last.fd)[a]) = last.rc
      ELSE /\ Len(last.list) = Cardinality(DOMAIN AttrsOf(last.fd))
           /\ {<<last.list[i].Name, last.list[i].Vlen>> : i \in DOMAIN last.list}
                = {<<a, Len(AttrsOf(last.fd)[a])>> : a \in DOMAIN AttrsOf(last.fd)}

AioOps == {"aio_read", "aio_write"}

\* C31: an aio_read or aio_write that returns a failure leaves no AioArgs
\* allocated that was not there before the call, returns the store's error
\* when the store refused the submission, and no callback is invoked for a
\* request the store refused
C31_RejectedSubmission ==
  /\ [][(last'.op \in AioOps /\ last'.rc < 0 /\ ~crashed') => aio' = aio]_vars
  /\ [][last'.op = "aio_callback" => \A a \in aio \ aio' : a.accepted]_vars

\* the other two parts of C31: a refused submission returns the store's
\* error, and no callback is invoked for it
C31_ErrorReturned ==
  /\ [][(last'.op \in AioOps /\ aio' # aio /\ \E a \in aio' \ aio : ~a.accepted) =>
          last'.rc = -EIO]_vars
  /\ [][last'.op = "aio_callback" => \A a \in aio \ aio' : a.accepted]_vars

\* C36: when the callback of an accepted aio_read gets a result that is no
\* failure code, the caller's buffer holds the bytes the store read, and the
\* store has put them into a bufferlist whose frame is there (the process
\* does not die in the completion)
C36_BufferFilled ==
  /\ [][(last'.op = "aio_callback" /\ \E a \in aio : a.id = last'.fd /\ ~a.write
           /\ last'.rc >= 0) =>
          last'.data = last'.bl]_vars
  /\ [][last'.op = "aio_complete" => ~crashed']_vars

\* the two parts of C36 apart: the buffer, and the bufferlist
C36_BufferOnly ==
  [][(last'.op = "aio_callback" /\ \E a \in aio : a.id = last'.fd /\ ~a.write
        /\ last'.rc >= 0) =>
       last'.data = last'.bl]_vars

C36_FrameOnly == [][last'.op = "aio_complete" => ~crashed']_vars

\* ---------------------------------------------------- session pool claims
\* same user, pool and striping layout
LayoutEquivalent(f, g) ==
  /\ f.userId = g.userId
  /\ f.pool = g.pool
  /\ f.nbStripes = g.nbStripes
  /\ f.stripeUnit = g.stripeUnit
  /\ f.objectSize = g.objectSize

\* the call got a striper from getRadosStriper
Acquired(call) == call.op = "stat" /\ ~call.threw /\ call.striper # NoStriper

\* C8: two acquisitions in a row with layout-equivalent identities give the
\* same pooled session and the second creates nothing; an acquisition with
\* another pool name gives another session; no two keys of g_radosStripers
\* hold the same striper
C8_SessionPool ==
  /\ [][(Acquired(last) /\ Acquired(last')) =>
          /\ LayoutEquivalent(last.file, last'.file) =>
                /\ last'.striper = last.striper
                /\ nextSession' = nextSession
                /\ g_radosStripers' = g_radosStripers
          /\ last.file.pool # last'.file.pool => last'.striper.id # last.striper.id]_vars
  /\ [](\A k1, k2 \in DOMAIN g_radosStripers :
          k1 # k2 => g_radosStripers[k1].id # g_radosStripers[k2].id)

\* the call missed the key and the cluster answered it with outcome o
Missed(call, o) == call.op = "stat" /\ ~call.threw /\ call.outcome = o

\* sessions exist and the cluster they were made on is connected
OtherSessions ==
  /\ g_radosStripers # <<>>
  /\ g_cluster # NULL /\ clusters[g_cluster].alive

\* C29: a key miss whose layout calls fail returns no striper (the caller
\* reports -EINVAL) and adds no entry to g_radosStripers and g_ioCtx; when
\* g_cluster was connected before the call and sessions exist, g_cluster and
\* the Rados object stay as they are, and g_cluster is 0 after the call only
\* when it was 0 before it
C29_LayoutRollback ==
  [][Missed(last', "layout") =>
       /\ last'.striper = NoStriper /\ last'.rc = -EINVAL
       /\ UNCHANGED <<g_radosStripers, g_ioCtx, nextSession>>
       /\ g_cluster = NULL => g_cluster' = NULL
       /\ OtherSessions => UNCHANGED <<g_cluster, clusters>>]_vars

\* the same without the part on the cluster that was there before
C29_EntriesOnly ==
  [][Missed(last', "layout") =>
       /\ last'.striper = NoStriper /\ last'.rc = -EINVAL
       /\ UNCHANGED <<g_radosStripers, g_ioCtx, nextSession>>
       /\ g_cluster' = NULL]_vars

\* C30: a first acquisition in which init, conf_read_file or connect fails
\* leaves g_cluster 0 and the session pool as it was and returns no striper
\* (the caller reports -EINVAL); an acquisition after it that succeeds has
\* made a new Rados for its own user id
C30_ConnectFailure ==
  /\ [][(\E o \in ConnectFailures : Missed(last', o)) =>
          /\ g_cluster = NULL /\ g_cluster' = NULL
          /\ UNCHANGED <<g_radosStripers, g_ioCtx, clusters, nextSession>>
          /\ last'.striper = NoStriper /\ last'.rc = -EINVAL
          /\ ~crashed']_vars
  /\ [][((\E o \in ConnectFailures : Missed(last, o)) /\ Acquired(last')
           /\ userAtPool(last'.file) \notin DOMAIN g_radosStripers) =>
          /\ g_cluster' = Len(clusters) + 1
          /\ clusters' = Append(clusters, [user |-> last'.file.userId, alive |-> TRUE,
                                           deletes |-> 0])
          /\ last'.striper.cluster = g_cluster']_vars

\* the first acquisition of the process has just failed to connect
C30_Witness ==
  /\ \E o \in ConnectFailures : Missed(last, o)
  /\ last.striper = NoStriper
  /\ g_cluster = NULL /\ clusters = <<>> /\ g_radosStripers = <<>>

\* C33: g_ioCtx and g_radosStripers have the same keys; when they have a
\* key, g_cluster points at a Rados that is connected; the Rados every
\* pooled striper was made on is connected
C33_PoolConsistent ==
  /\ DOMAIN g_ioCtx = DOMAIN g_radosStripers
  /\ g_radosStripers # <<>> => g_cluster # NULL /\ clusters[g_cluster].alive
  /\ \A k \in DOMAIN g_radosStripers : Up(CurPool, g_radosStripers[k])

\* the part of C33 on the keys, and on the pairs under them
C33_SameKeys ==
  /\ DOMAIN g_ioCtx = DOMAIN g_radosStripers
  /\ \A k \in DOMAIN g_radosStripers : g_ioCtx[k] = g_radosStripers[k]

\* C34: an acquisition that misses the key finds g_cluster 0 or pointing at
\* a connected Rados, never at one that ceph_posix_disconnect_all deleted,
\* and the striper it returns was made on a connected Rados
C34_FreshCluster ==
  [][(last'.op = "stat" /\ ~last'.threw
        /\ userAtPool(last'.file) \notin DOMAIN g_radosStripers) =>
       /\ g_cluster # NULL => clusters[g_cluster].alive
       /\ last'.striper # NoStriper => clusters'[last'.striper.cluster].alive]_vars

\* C35: the striper an acquisition returns was made on a Rados that was
\* initialised with the user id of the acquiring file
C35_ConnectedAsUser ==
  [][Acquired(last') =>
       clusters'[last'.striper.cluster].user = last'.file.userId]_vars

\* C9: ceph_posix_disconnect_all leaves g_radosStripers and g_ioCtx empty and
\* no live cluster handle, also when it is called again straight away, and no
\* Rados object is ever deleted twice
C9_DisconnectAll ==
  last.op = "disconnect_all" =>
    /\ g_radosStripers = <<>>
    /\ g_ioCtx = <<>>
    /\ g_cluster # NULL => ~clusters[g_cluster].alive
    /\ \A c \in DOMAIN clusters : clusters[c].deletes <= 1

\* ------------------------------------------------------ concurrency claims
\* thread t returns from ceph_posix_open in this step
Returns(t) == threads[t].op = "open" /\ threads[t].pc = "return" /\ threads'[t].pc = "idle"

\* the descriptors of a name in g_fds that were opened in a write mode
Writers(name) == {fd \in DOMAIN g_fds : g_fds[fd].name = name /\ ForWrite(g_fds[fd].flags)}

\* C15: whatever the order of the statements of two threads, an open
\* returns a handle that no open returned before and that g_fds maps to the
\* file this call opened, all handles returned and not closed are in g_fds,
\* and, when no thread is inside a call, every name occurs in
\* g_filesOpenForWrite once per descriptor opened for writing
C15_ConcurrentOpen ==
  /\ [][\A t \in Threads :
          Returns(t) =>
            /\ threads'[t].ret \notin Issued
            /\ threads'[t].ret \in DOMAIN g_fds'
            /\ g_fds'[threads'[t].ret] = threads[t].fr]_vars
  /\ []((~crashed /\ \A t \in Threads : threads[t].pc = "idle") =>
          \A n \in IOPaths :
             Occurrences(g_filesOpenForWrite, n) = Cardinality(Writers(n)))

\* C16: whatever the order of the statements of two threads that acquire
\* sessions, no Rados object is alive that g_cluster does not point at;
\* when no thread is inside a call, every IoCtx/striper pair created is in
\* the maps, under one key as a pair; and two callers that were given a
\* session for one key were given the same one
C16_ConcurrentAcquire ==
  /\ \A c \in DOMAIN clusters : clusters[c].alive => g_cluster = c
  /\ (~crashed /\ \A t \in Threads : threads[t].pc = "idle") =>
       /\ nextSession = Cardinality(DOMAIN g_radosStripers)
       /\ \A k \in DOMAIN g_radosStripers : g_ioCtx[k].id = g_radosStripers[k].id
       /\ \A t, u \in Threads :
            (/\ threads[t].op = "acquire" /\ threads[u].op = "acquire"
             /\ threads[t].key = threads[u].key
             /\ threads[t].ret # NoStriper /\ threads[u].ret # NoStriper) =>
              threads[t].ret = threads[u].ret

\* -------------------------------------------------------- directory claims
\* the key of the first stripe object of a file
IsFirstStripe(key) ==
  /\ Len(key) >= SuffixLen
  /\ SubSeq(key, Len(key) - SuffixLen + 1, Len(key)) = FirstStripe

\* the name of the file whose first stripe object has this key
LogicalName(key) == SubSeq(key, 1, Len(key) - SuffixLen)

\* the position of the first key of a first stripe at or after the cursor
\* of DirIterator d, 0 when there is none
NextEntry(d) ==
  LET found == {i \in dirs[d].pos..Len(dirs[d].keys) : IsFirstStripe(dirs[d].keys[i])}
  IN IF found = {} THEN 0 ELSE CHOOSE i \in found : \A j \in found : i <= j

\* C12: a readdir with a first-stripe key at or after the cursor returns
\* the name of that file in full, the key without its suffix, and moves the
\* cursor past the key, so that each file is named once; the keys it passes
\* on the way, of other stripes and other objects, yield nothing
C12_ReadDirNames ==
  [][last'.op = "readdir" =>
       LET d == last'.fd
           i == NextEntry(d)
       IN i # 0 =>
            /\ ~last'.threw /\ ~crashed'
            /\ last'.rc = 0
            /\ last'.buff = LogicalName(dirs[d].keys[i])
            /\ dirs'[d].pos = i + 1]_vars

\* C13: a readdir with no first-stripe key left returns the empty name
\* with success and leaves the cursor at the end; every other readdir
\* returns a name that is not empty and moves the cursor on, so that the
\* end is reached after finitely many calls; no readdir reads the object
\* of the end iterator
C13_ReadDirEnd ==
  [][last'.op = "readdir" =>
       LET d == last'.fd
           i == NextEntry(d)
       IN /\ ~last'.pastEnd
          /\ i = 0 =>
               /\ ~last'.threw /\ ~crashed'
               /\ last'.rc = 0
               /\ last'.buff = <<>>
               /\ dirs'[d].pos = Len(dirs[d].keys) + 1
          /\ i # 0 =>
               /\ last'.buff # <<>>
               /\ dirs'[d].pos > dirs[d].pos]_vars

\* C27: an opendir gives a DirIterator only for the name "/"; for any other
\* name it returns NULL with errno ENOENT, makes no session and no
\* DirIterator
C27_OpenDirRootOnly ==
  [][last'.op = "opendir" =>
       /\ last'.rc # NULL => last'.file.name = <<"/">>
       /\ last'.file.name # <<"/">> =>
             /\ last'.rc = NULL
             /\ last'.errno = ENOENT
             /\ UNCHANGED <<poolVars, dirs>>]_vars

\* ----------------------------------------------------------- parser claims
\* the i-th comma-separated text of the path of the last call, None when the
\* path has fewer of them
Piece(i) ==
  IF last.pieces.colon /\ i <= Len(last.pieces.fields) THEN last.pieces.fields[i] ELSE None

\* what the environment of the last call, or else the process default, gives
EnvOrDefault(key, dflt) ==
  IF EnvGet(last.env, key) # None THEN EnvGet(last.env, key) ELSE dflt

\* a text that is a number written plainly: digits, the first one not 0
PlainNumber(text) ==
  /\ text \notin {None, <<>>}
  /\ \A i \in 1..Len(text) : text[i] \in DigitChars
  /\ text[1] # "0"

\* a field follows the resolution order: the path's text when the path
\* supplies one, else the environment's value, else the default
Resolved(piece, key, dflt, value) ==
  /\ piece \notin {None, <<>>} => value = piece
  /\ piece = None => value = EnvOrDefault(key, dflt)

ResolvedNumber(piece, key, dflt, value) ==
  /\ PlainNumber(piece) => value = piece
  /\ piece = None => value = EnvOrDefault(key, dflt)

\* C17: each field of a resolved file is the value the path supplies, else
\* the value of the field's key in the environment, else the default; the
\* environment never overrides the path and the default never overrides
\* the environment
C17_ResolutionOrder ==
  (last.op = "getCephFile" /\ ~last.threw) =>
    /\ Resolved(last.pieces.user, "cephUserId", g_defaultParams.userId, last.file.userId)
    /\ Resolved(Piece(1), "cephPool", g_defaultParams.pool, last.file.pool)
    /\ ResolvedNumber(Piece(2), "cephNbStripes", g_defaultParams.nbStripes,
                      last.file.nbStripes)
    /\ ResolvedNumber(Piece(3), "cephStripeUnit", g_defaultParams.stripeUnit,
                      last.file.stripeUnit)
    /\ ResolvedNumber(Piece(4), "cephObjectSize", g_defaultParams.objectSize,
                      last.file.objectSize)

\* the path p,3:f under an environment that names every field: pool and
\* stripe count come from the path, the rest from the environment
C17_Witness ==
  /\ last.op = "getCephFile" /\ ~last.threw
  /\ last.env = FullEnv
  /\ last.pieces.user = None
  /\ last.pieces.fields = <<<<"p">>, <<"3">>>>
  /\ last.file.pool = <<"p">>
  /\ last.file.nbStripes = <<"3">>
  /\ last.file.userId = <<"e">>
  /\ last.file.stripeUnit = <<"6">>

\* C18: user@pool,stripeCount,stripeUnit,objectSize:name resolves to
\* exactly these fields, the name being the text after the first colon; a
\* path without a colon resolves, without an environment, to the default
\* layout and the whole path as the name
C18_PathForms ==
  last.op = "getCephFile" =>
    /\ (/\ last.pieces.colon
        /\ last.pieces.user # None
        /\ Len(last.pieces.fields) = 4
        /\ Piece(1) # <<>>
        /\ PlainNumber(Piece(2)) /\ ValueLE(Piece(2), UINT_MAX)
        /\ PlainNumber(Piece(3)) /\ ValueLE(Piece(3), ULLONG_MAX)
        /\ PlainNumber(Piece(4)) /\ ValueLE(Piece(4), ULLONG_MAX)) =>
         /\ ~last.threw
         /\ last.file = [name |-> last.pieces.name, pool |-> Piece(1),
                         userId |-> last.pieces.user, nbStripes |-> Piece(2),
                         stripeUnit |-> Piece(3), objectSize |-> Piece(4)]
    /\ (~last.pieces.colon /\ last.env = NoEnv) =>
         /\ ~last.threw
         /\ last.file = [g_defaultParams EXCEPT !.name = last.path]

\* the path u@p,3,4294967296,3:d:1, whose name holds a colon
C18_Witness ==
  /\ last.op = "getCephFile" /\ ~last.threw
  /\ last.path = <<"u", "@", "p", ",", "3", ",", "4", "2", "9", "4", "9", "6", "7", "2",
                   "9", "6", ",", "3", ":", "d", ":", "1">>
  /\ last.file.name = <<"d", ":", "1">>
  /\ last.file.userId = <<"u">>
  /\ last.file.objectSize = <<"3">>

\* C19: an empty pool, stripe count, stripe unit or object size text in
\* the path is treated as absent: the field is the environment's value,
\* else the default
C19_EmptyPieces ==
  (last.op = "getCephFile" /\ ~last.threw) =>
    /\ Piece(1) = <<>> => last.file.pool = EnvOrDefault("cephPool", g_defaultParams.pool)
    /\ Piece(2) = <<>> =>
         last.file.nbStripes = EnvOrDefault("cephNbStripes", g_defaultParams.nbStripes)
    /\ Piece(3) = <<>> =>
         last.file.stripeUnit = EnvOrDefault("cephStripeUnit", g_defaultParams.stripeUnit)
    /\ Piece(4) = <<>> =>
         last.file.objectSize = EnvOrDefault("cephObjectSize", g_defaultParams.objectSize)

\* a supplied text that is no unsigned number up to max: a character that
\* is no digit (a sign included), or a value above max
NotUnsigned(text, max) ==
  /\ text \notin {None, <<>>}
  /\ \/ \E i \in 1..Len(text) : text[i] \notin DigitChars
     \/ ~ValueLE(StripZeros(text), max)

\* C20: the parse fails when the path supplies a stripe count that is no
\* 32-bit unsigned number, a stripe unit or object size that is no 64-bit
\* unsigned number, or more fields than four
C20_InvalidLayout ==
  (/\ last.op = "getCephFile"
   /\ \/ NotUnsigned(Piece(2), UINT_MAX)
      \/ NotUnsigned(Piece(3), ULLONG_MAX)
      \/ NotUnsigned(Piece(4), ULLONG_MAX)
      \/ Piece(5) # None) =>
    last.threw

\* the i-th comma-separated text of a path written from the pieces in
FieldOf(in, i) == IF in.colon /\ i <= Len(in.fields) THEN in.fields[i] ELSE None

\* a parameter part that is malformed: a stripe count that is no 32-bit
\* unsigned number, a stripe unit or object size that is no 64-bit unsigned
\* number, or a fifth field
Malformed(in) ==
  \/ NotUnsigned(FieldOf(in, 2), UINT_MAX)
  \/ NotUnsigned(FieldOf(in, 3), ULLONG_MAX)
  \/ NotUnsigned(FieldOf(in, 4), ULLONG_MAX)
  \/ FieldOf(in, 5) # None

OssOps == {"XrdCephOss::Stat", "XrdCephOss::Truncate", "XrdCephOss::Unlink"}

\* C28: Stat, Truncate and Unlink of the plugin on a path with a malformed
\* parameter part return -EINVAL, the exception of the parse does not leave
\* them, and the descriptor table, g_filesOpenForWrite, the session maps,
\* g_cluster and the store are as before the call
C28_MalformedPath ==
  [][(last'.op \in OssOps /\ Malformed(last'.pieces)) =>
       /\ last'.rc = -EINVAL
       /\ ~last'.threw
       /\ UNCHANGED <<poolVars, fdVars, store>>]_vars

\* the same for the paths whose parse throws
C28_ParseThrows ==
  [][(last'.op \in OssOps /\ ~getCephFile(PathOf(last'.pieces), NoEnv).ok
        /\ PathOf(last'.pieces) # <<"/">>) =>
       /\ last'.rc = -EINVAL /\ last'.caught
       /\ ~last'.threw
       /\ UNCHANGED <<poolVars, fdVars, store>>]_vars

\* the string a caller writes from a resolved file: the layout key of
\* getRadosStriper, a colon and the name
Serialized(file) == userAtPool(file) \o <<":">> \o file.name

\* C21: a path that parses resolves to a file whose serialization
\* (user@pool,nbStripes,stripeUnit,objectSize:name) parses, under every
\* environment, to the same file.
C21_RoundTrip ==
  (last.op = "getCephFile" /\ ~last.threw) =>
    \A env \in ParseEnvs :
      \E again \in {getCephFile(Serialized(last.file), env)} :
        again.ok /\ again.file = last.file
\* ------------------------------------------------------ block cache claims
\* C39: no iteration of IOFileBlock::Read fails one of its three assertions
C39_Assertions ==
  last.op = "IOFileBlock::Read" => last.failed = "none"

\* the offset of every iteration is inside its block, and the block is read
\* to its end at most
C39_InsideBlock ==
  last.op = "IOFileBlock::Read" => last.failed \notin {"off < min", "off+readBlockSize"}

\* the assertion on the size fails in the first iteration of a read that was
\* of no byte or that starts at the end of the file, and in a later one of a
\* read that was cut to the end of a block
C39_ZeroSize ==
  (last.op = "IOFileBlock::Read" /\ last.failed = "readBlockSize") =>
     \/ last.iterations = 1 /\ last.size = 0
     \/ last.iterations > 1 /\ last.off0 + last.size = last.blockIdx * last.blocksize
                              /\ last.off0 + last.size = last.fsize

\* ------------------------------------------------ local file plugin claims
\* C40: an Open of a URL whose host has no entry in swapLocalMap hands an
\* error status to the handler and returns it, and the file is not open
C40_UnmappedHost ==
  (last.op = "OpenLocalFile::Open" /\ last.url.host \notin DOMAIN last.swapLocalMap) =>
     /\ ~crashed
     /\ last.status = "stError"
     /\ last.handled = "stError"
     /\ ~IsOpen(last)

\* an Open of a URL whose host has a local directory opens the file of
\* that directory and of the path of the URL, or no file
C40_MappedHost ==
  [][(last'.op = "OpenLocalFile::Open"
        /\ getLocalAdressMap(last'.swapLocalMap, last'.url.host) # "NotInside") =>
       /\ ~crashed'
       /\ last'.newurl = last'.swapLocalMap[last'.url.host] \o last'.url.path
       /\ last'.file \in {last.file, [is_open |-> TRUE, name |-> last'.newurl]}
       /\ last'.handled = last'.status
       /\ (last'.status = "stOK") = (~IsOpen(last) /\ IsOpen(last'))]_vars

\* an Open without a local directory whose LocalPath came back with the
\* empty string hands over an error and leaves the stream as it was
C40_EmptyString ==
  [][(last'.op = "OpenLocalFile::Open" /\ ~crashed'
        /\ getLocalAdressMap(last'.swapLocalMap, last'.url.host) = "NotInside"
        /\ last'.newurl = "") =>
       /\ last'.status = "stError"
       /\ last'.handled = "stError"
       /\ last'.file = last.file]_vars

====
